---- MODULE Spec2Model ----
(***************************************************************************)
(* Boxfunge: a Befunge-93 engine with a basic-block just-in-time compiler  *)
(* (src/src/jit.rs) and a cell-by-cell stepping interpreter                *)
(* (src/src/main.rs).  The model runs both machines on the same program,   *)
(* the same input bytes and the same random directions.                    *)
(***************************************************************************)
EXTENDS Integers, Sequences, FiniteSets, TLC

\* ------------------------------------------------------------------------
\* Program constants
\* ------------------------------------------------------------------------
GRID_HEIGHT == 25
GRID_WIDTH == 80
BASIC_BLOCK_SIZE_LIMIT == 2048

\* ------------------------------------------------------------------------
\* Bounds of the model
\* ------------------------------------------------------------------------
\* Longest input stream drawn for a program that reads input.
MaxInput == 3
\* Number of random directions drawn for a program that uses `?`.
MaxRand == 2
\* Largest number of block compilations of one run.
MaxCompiles == 8
\* Largest number of interpreter steps of one run.
MaxSteps == 120
\* The compiler's loop is followed for up to 2^TraceDepth iterations.
TraceDepth == 17
\* Width in bits of the machine word `Int` (c_long) kept by the model.
IntBits == 16

\* ------------------------------------------------------------------------
\* Bytes of the commands, by name
\* ------------------------------------------------------------------------
Byte ==
    [ space |-> 32, bang |-> 33, quote |-> 34, hash |-> 35, dollar |-> 36,
      percent |-> 37, amp |-> 38, star |-> 42, plus |-> 43, comma |-> 44,
      minus |-> 45, dot |-> 46, slash |-> 47, zero |-> 48, nine |-> 57,
      colon |-> 58, lt |-> 60, gt |-> 62, question |-> 63, at |-> 64,
      backslash |-> 92, caret |-> 94, underscore |-> 95, backtick |-> 96,
      g |-> 103, p |-> 112, v |-> 118, bar |-> 124, tilde |-> 126,
      A |-> 65, X |-> 88, tab |-> 9, lf |-> 10, cr |-> 13 ]

\* ------------------------------------------------------------------------
\* Position, Direction, PC
\* ------------------------------------------------------------------------
Direction == {"Up", "Down", "Left", "Right"}

Position(x, y) == [x |-> x, y |-> y]

\* impl Add<Direction> for Position
PosAdd(p, d) ==
    CASE d = "Up" -> Position(p.x, p.y - 1)
      [] d = "Down" -> Position(p.x, p.y + 1)
      [] d = "Left" -> Position(p.x - 1, p.y)
      [] d = "Right" -> Position(p.x + 1, p.y)

PC(pos, dir) == [position |-> pos, direction |-> dir]

\* PC::default(): position (0,0), direction Right
PCDefault == PC(Position(0, 0), "Right")

\* Rust's % on i64: the remainder has the sign of the dividend
rust_rem(a, b) == IF a >= 0 THEN a % b ELSE -((-a) % b)

\* (0..n).contains(&(v as usize)): a negative v casts to a huge usize
ContainsAsUsize(n, v) == v >= 0 /\ v < n

step(pc) == [pc EXCEPT !.position = PosAdd(pc.position, pc.direction)]

\* the remainder taken without adding the grid size first
constrain_remainder(pc) ==
    [pc EXCEPT !.position = Position(rust_rem(pc.position.x, GRID_WIDTH),
                                     rust_rem(pc.position.y, GRID_HEIGHT))]

constrain(pc) ==
    LET x == pc.position.x
        y == pc.position.y
        nx == IF ~ContainsAsUsize(GRID_WIDTH, x)
              THEN rust_rem(x + GRID_WIDTH, GRID_WIDTH) ELSE x
        ny == IF ~ContainsAsUsize(GRID_HEIGHT, y)
              THEN rust_rem(y + GRID_HEIGHT, GRID_HEIGHT) ELSE y
    IN  [pc EXCEPT !.position = Position(nx, ny)]

\* (0..GRID_WIDTH as Int).contains(&x) && (0..GRID_HEIGHT as Int).contains(&y)
InGrid(x, y) == x >= 0 /\ x < GRID_WIDTH /\ y >= 0 /\ y < GRID_HEIGHT

\* Indexing a [[T; GRID_WIDTH]; GRID_HEIGHT] with [y as usize][x as usize]
\* panics exactly when the position is not a cell.
IndexPanics(pos) == ~InGrid(pos.x, pos.y)

Cells == {Position(x, y) : x \in 0..(GRID_WIDTH - 1), y \in 0..(GRID_HEIGHT - 1)}

\* ------------------------------------------------------------------------
\* The machine word
\* ------------------------------------------------------------------------
IntModulus == 2 ^ IntBits
IntMin == -(2 ^ (IntBits - 1))
IntMax == 2 ^ (IntBits - 1) - 1

\* two's-complement wrap of a mathematical integer into the machine word
WrapInt(v) == ((v - IntMin) % IntModulus) + IntMin

\* `value as u8`
\* the value clamped to 0..255
AsU8_saturating(v) == IF v > 255 THEN 255 ELSE IF v < 0 THEN 0 ELSE v

AsU8(v) == v % 256

\* `byte as i8 as Int`
\* the byte widened without its sign
AsI8_unsigned(b) == b

AsI8(b) == IF b >= 128 THEN b - 256 ELSE b

\* ------------------------------------------------------------------------
\* Byte code (enum Operation), terminators (enum ControlFlowDecision)
\* ------------------------------------------------------------------------
Op(kind, num, mode, pc) == [op |-> kind, num |-> num, mode |-> mode, pc_after |-> pc]

PushConstant(n) == Op("PushConstant", n, "", PCDefault)

\* SetValue that carries the default PC
SetValue_default(pc_after) == Op("SetValue", 0, "", PCDefault)

SetValue(pc_after) == Op("SetValue", 0, "", pc_after)

\* Jump to the default PC
Jump_default(target) == [kind |-> "Jump", targets |-> <<PCDefault>>]

Jump(target) == [kind |-> "Jump", targets |-> <<target>>]

Branch(true_target, false_target) ==
    [kind |-> "Branch", targets |-> <<true_target, false_target>>]

EndProgram == [kind |-> "EndProgram", targets |-> <<>>]

Random(choices) == [kind |-> "Random", targets |-> choices]

\* BasicBlock::new
BasicBlock_new(entry_point) ==
    [entry_point |-> entry_point, bytecode |-> <<>>, cf_decision |-> EndProgram]

\* The commands whose arm is "push one op, step, constrain".
PlainCommands ==
    (Byte.zero .. Byte.nine) \cup
    { Byte.colon, Byte.backslash, Byte.dollar, Byte.plus, Byte.minus, Byte.star,
      Byte.slash, Byte.percent, Byte.bang, Byte.backtick, Byte.comma, Byte.dot,
      Byte.tilde, Byte.amp, Byte.g }

PlainOp(c) ==
    CASE c \in Byte.zero .. Byte.nine -> PushConstant(c - Byte.zero)
      [] c = Byte.colon -> Op("Duplicate", 0, "", PCDefault)
      [] c = Byte.backslash -> Op("Swap", 0, "", PCDefault)
      [] c = Byte.dollar -> Op("Drop", 0, "", PCDefault)
      [] c = Byte.plus -> Op("Binary", 0, "Add", PCDefault)
      [] c = Byte.minus -> Op("Binary", 0, "Subtract", PCDefault)
      [] c = Byte.star -> Op("Binary", 0, "Multiply", PCDefault)
      [] c = Byte.slash -> Op("Binary", 0, "Divide", PCDefault)
      [] c = Byte.percent -> Op("Binary", 0, "Remainder", PCDefault)
      [] c = Byte.bang -> Op("Negate", 0, "", PCDefault)
      [] c = Byte.backtick -> Op("Binary", 0, "Greater", PCDefault)
      [] c = Byte.comma -> Op("Output", 0, "Ascii", PCDefault)
      [] c = Byte.dot -> Op("Output", 0, "Decimal", PCDefault)
      [] c = Byte.tilde -> Op("Input", 0, "Ascii", PCDefault)
      [] c = Byte.amp -> Op("Input", 0, "Decimal", PCDefault)
      [] c = Byte.g -> Op("GetValue", 0, "", PCDefault)

\* The direction a redirection command sets.
Redirect(c) ==
    CASE c = Byte.gt -> "Right"
      [] c = Byte.lt -> "Left"
      [] c = Byte.caret -> "Up"
      [] c = Byte.v -> "Down"

\* A branch or random target: `current_pc.position + direction`, facing
\* `direction`; the sum is not constrained.
Target(pos, direction) == PC(PosAdd(pos, direction), direction)

\* The state of the loop of compile_basic_block_from: its locals, and how it
\* stands: "Tracing" (in the loop), "Ok" (break, then Ok((basic_block, pcs))),
\* "IllegalCommand" (return Err), "Panic" (the grid is indexed outside its
\* bounds), "NoReturn" (the loop repeats for ever).  `idle` holds the loop
\* states (current_pc, string_mode) passed since the last op was pushed: the
\* grid is read-only, so meeting one of them again means the loop never exits.
Tracing(start_pc) ==
    [kind |-> "Tracing", entry_point |-> start_pc, current_pc |-> start_pc,
     string_mode |-> FALSE, bytecode |-> <<>>, pcs |-> <<>>, idle |-> {},
     cf_decision |-> EndProgram, command |-> 0]

\* One iteration of the loop.
compile_iteration(grid, t) ==
    IF IndexPanics(t.current_pc.position) THEN [t EXCEPT !.kind = "Panic"]
    ELSE IF <<t.current_pc, t.string_mode>> \in t.idle THEN [t EXCEPT !.kind = "NoReturn"]
    ELSE
    LET current_pc == t.current_pc
        current_command == grid[current_pc.position.y][current_pc.position.x]
        seen == [t EXCEPT !.pcs = Append(@, current_pc.position),
                          !.idle = @ \cup {<<current_pc, t.string_mode>>}]
        moved == constrain(step(current_pc))
        finish(cf_decision) == [seen EXCEPT !.kind = "Ok", !.cf_decision = cf_decision]
        push(op, next_pc) == [seen EXCEPT !.bytecode = Append(@, op), !.idle = {},
                                          !.current_pc = next_pc]
    IN
    IF t.string_mode THEN
        IF current_command = Byte.quote
        THEN [seen EXCEPT !.string_mode = FALSE, !.current_pc = moved]
        ELSE push(PushConstant(current_command), moved)
    ELSE IF Len(t.bytecode) > BASIC_BLOCK_SIZE_LIMIT THEN finish(Jump(current_pc))
    ELSE
    CASE current_command \in {Byte.gt, Byte.lt, Byte.caret, Byte.v} ->
            [seen EXCEPT !.current_pc =
                constrain(step([current_pc EXCEPT !.direction = Redirect(current_command)]))]
      [] current_command = Byte.question ->
            finish(Random(<<Target(current_pc.position, "Up"),
                            Target(current_pc.position, "Down"),
                            Target(current_pc.position, "Left"),
                            Target(current_pc.position, "Right")>>))
      [] current_command = Byte.hash ->
            [seen EXCEPT !.current_pc = constrain(step(step(current_pc)))]
      [] current_command = Byte.space -> [seen EXCEPT !.current_pc = moved]
      [] current_command = Byte.quote ->
            [seen EXCEPT !.string_mode = TRUE, !.current_pc = moved]
      [] current_command \in PlainCommands -> push(PlainOp(current_command), moved)
      [] current_command = Byte.underscore ->
            finish(Branch(Target(current_pc.position, "Left"),
                          Target(current_pc.position, "Right")))
      [] current_command = Byte.bar ->
            finish(Branch(Target(current_pc.position, "Up"),
                          Target(current_pc.position, "Down")))
      [] current_command = Byte.at -> finish(EndProgram)
      [] current_command = Byte.p -> push(SetValue(moved), moved)
      [] OTHER -> [t EXCEPT !.kind = "IllegalCommand", !.command = current_command]

\* The loop: up to 2^depth iterations, stopping when the loop is left.  (The
\* first half's result is bound by a quantifier, so it is computed once.)
RECURSIVE compile_loop(_, _, _)
compile_loop(grid, t, depth) ==
    IF t.kind # "Tracing" THEN t
    ELSE IF depth = 0 THEN compile_iteration(grid, t)
    ELSE CHOOSE r \in {compile_loop(grid, half, depth - 1) :
                          half \in {compile_loop(grid, t, depth - 1)}} : TRUE

\* compile_basic_block_from with the cell of the terminator left out of the
\* visited cells
compile_basic_block_from_open(start_pc, grid) ==
    CHOOSE r \in
        {[kind |-> t.kind,
          block |-> [entry_point |-> start_pc, bytecode |-> t.bytecode,
                     cf_decision |-> t.cf_decision],
          elements |-> SubSeq(t.pcs, 1, Len(t.pcs) - 1), command |-> t.command] :
            t \in {compile_loop(grid, first, TraceDepth) : first \in {Tracing(start_pc)}}} : TRUE

\* compile_basic_block_from: the result kind, the block, the visited cells
\* (`pcs`), the byte of an IllegalCommand
compile_basic_block_from(start_pc, grid) ==
    CHOOSE r \in
        {[kind |-> t.kind,
          block |-> [entry_point |-> start_pc, bytecode |-> t.bytecode,
                     cf_decision |-> t.cf_decision],
          elements |-> t.pcs, command |-> t.command] :
            t \in {compile_loop(grid, first, TraceDepth) : first \in {Tracing(start_pc)}}} : TRUE

\* ------------------------------------------------------------------------
\* Interpreter::parse_grid, on the lines of the source (`grid.lines()`),
\* each line the sequence of its characters
\* ------------------------------------------------------------------------
\* Vec::resize(n, fill): truncates a longer vector, pads a shorter one
\* the vector extended with NUL bytes
resize_zeroed(line, n, fill) == [i \in 1..n |-> IF i <= Len(line) THEN line[i] ELSE 0]

resize(line, n, fill) == [i \in 1..n |-> IF i <= Len(line) THEN line[i] ELSE fill]

parse_grid(lines) ==
    LET height == Len(lines)
        width == IF Len(lines) = 0 THEN 0 ELSE Len(lines[1])
        nonascii == {<<i, j>> \in (1..Len(lines)) \X (1..GRID_WIDTH + 2) :
                        j <= Len(lines[i]) /\ lines[i][j] > 127}
        first == CHOOSE p \in nonascii :
                    \A q \in nonascii : p[1] < q[1] \/ (p[1] = q[1] /\ p[2] <= q[2])
    IN  IF nonascii # {}
        THEN [kind |-> "NonAscii", grid |-> <<>>, value |-> lines[first[1]][first[2]]]
        ELSE IF height > GRID_HEIGHT \/ width > GRID_WIDTH
        THEN [kind |-> "InvalidGridSize", grid |-> <<>>, value |-> <<width, height>>]
        ELSE [kind |-> "Ok", value |-> 0,
              grid |-> [y \in 0..(GRID_HEIGHT - 1) |->
                          [x \in 0..(GRID_WIDTH - 1) |->
                              IF y + 1 <= height
                              THEN resize(lines[y + 1], GRID_WIDTH, Byte.space)[x + 1]
                              ELSE Byte.space]]]

\* The mark on the stream of a read that fails with an error other than
\* UnexpectedEof.  It is no byte; scan_next takes it for part of a token
\* that does not parse, which gives the Io error as `Err(why) => return
\* Err(why)` does.
ReadFailure == 256

\* ------------------------------------------------------------------------
\* The programs the machines are run on
\* ------------------------------------------------------------------------
\* stores `A` over its own entry cell, prints, then branches:
\*     0"A"00p7._@
SelfStore ==
    [ source |-> <<<<48, 34, 65, 34, 48, 48, 112, 55, 46, 95, 64>>>>,
      bytes |-> {}, reads |-> FALSE, random |-> FALSE ]

\* a loop that stores `#` at (x,0), x read from the input:
\*     v       <
\*     >"#"~0p1|
\*             @
StaleEntry ==
    [ source |-> <<<<118, 32, 32, 32, 32, 32, 32, 32, 60>>,
          <<62, 34, 35, 34, 126, 48, 112, 49, 124>>,
          <<32, 32, 32, 32, 32, 32, 32, 32, 64>>>>,
      bytes |-> {4, 5, 9}, reads |-> TRUE, random |-> FALSE ]

\* a `|` on the top edge taken upwards:
\*     1|
EdgeBranch ==
    [ source |-> <<<<49, 124>>>>,
      bytes |-> {}, reads |-> FALSE, random |-> FALSE ]

\* a `?` with an end in three directions and a way back in the fourth:
\*     7v
\*     @?@
\*      @
RandomWalk ==
    [ source |-> <<<<55, 118>>,
          <<64, 63, 64>>,
          <<32, 64>>>>,
      bytes |-> {}, reads |-> FALSE, random |-> TRUE ]

\* the empty source: every cell is a space:
Blank ==
    [ source |-> <<>>,
      bytes |-> {}, reads |-> FALSE, random |-> FALSE ]

\* stores 0 at (x,y), both read from the input:
\*     0~~p1.@
StoreAnywhere ==
    [ source |-> <<<<48, 126, 126, 112, 49, 46, 64>>>>,
      bytes |-> {0, 24, 25, 79, 80}, reads |-> TRUE, random |-> FALSE ]

\* prints, then meets a byte that is no command:
\*     1.X
IllegalAfterOutput ==
    [ source |-> <<<<49, 46, 88>>>>,
      bytes |-> {}, reads |-> FALSE, random |-> FALSE ]

\* every plain op once:
\*     12:\$+3*7-2/5%!1`00g,&.@
Arithmetic ==
    [ source |-> <<<<49, 50, 58, 92, 36, 43, 51, 42, 55, 45, 50, 47, 53, 37, 33, 49, 96, 48, 48, 103, 44, 38, 46, 64>>>>,
      bytes |-> {49, 50, 32, 45}, reads |-> TRUE, random |-> FALSE ]

\* branches on an input byte:
\*     ~_@
InputBranch ==
    [ source |-> <<<<126, 95, 64>>>>,
      bytes |-> {0, 1}, reads |-> TRUE, random |-> FALSE ]

\* a `|` taken upwards inside the grid:
\*     v  @
\*     >71|
\*        @
BranchUp ==
    [ source |-> <<<<118, 32, 32, 64>>,
          <<62, 55, 49, 124>>,
          <<32, 32, 32, 64>>>>,
      bytes |-> {}, reads |-> FALSE, random |-> FALSE ]

\* prints, branches, and only then meets a byte that is no command:
\*     707._X
IllegalAfterBranch ==
    [ source |-> <<<<55, 48, 55, 46, 95, 88>>>>,
      bytes |-> {}, reads |-> FALSE, random |-> FALSE ]

\* writes the bytes it reads:
\*     ~,~,@
EchoBytes ==
    [ source |-> <<<<126, 44, 126, 44, 64>>>>,
      bytes |-> {65, 200, 255, ReadFailure}, reads |-> TRUE, random |-> FALSE ]

\* ends at once:
\*     @
EndAtOrigin ==
    [ source |-> <<<<64>>>>,
      bytes |-> {}, reads |-> FALSE, random |-> FALSE ]

\* reads a number and writes it:
\*     &.@
ReadDecimal ==
    [ source |-> <<<<38, 46, 64>>>>,
      bytes |-> {0, 32, 45, 49}, reads |-> TRUE, random |-> FALSE ]

\* every popping command on a stack too short for it, `/` last:
\*     $:$$1\$$!$+.,g.p_/@
PopEmpty ==
    [ source |-> <<<<36, 58, 36, 36, 49, 92, 36, 36, 33, 36, 43, 46, 44, 103, 46, 112, 95, 47, 64>>>>,
      bytes |-> {}, reads |-> FALSE, random |-> FALSE ]

\* stores -1 past the end of the code, then reads a cell picked by the input:
\*     01-94+0p~~g.@
SignedRead ==
    [ source |-> <<<<48, 49, 45, 57, 52, 43, 48, 112, 126, 126, 103, 46, 64>>>>,
      bytes |-> {0, 13, 25, 80, 255}, reads |-> TRUE, random |-> FALSE ]

\* enters the cell (2,1) downwards, then to the right, and then stores to a
\* cell that only the block entered downwards has visited:
\*       |
\*      _ "<"22p@
\*      ^<
SharedEntry ==
    [ source |-> <<<<32, 32, 124>>,
          <<32, 95, 32, 34, 60, 34, 50, 50, 112, 64>>,
          <<32, 94, 60>>>>,
      bytes |-> {}, reads |-> FALSE, random |-> FALSE ]

\* jumps over a byte that is no command, then passes a space and a string:
\*     #X "#"5.@
Bridge ==
    [ source |-> <<<<35, 88, 32, 34, 35, 34, 53, 46, 64>>>>,
      bytes |-> {}, reads |-> FALSE, random |-> FALSE ]

\* stores -1 into the cell between the quotes, then passes the string:
\*     01-70p"X".@
StringOfStored ==
    [ source |-> <<<<48, 49, 45, 55, 48, 112, 34, 88, 34, 46, 64>>>>,
      bytes |-> {}, reads |-> FALSE, random |-> FALSE ]

\* meets `p` in the column 0 going left, and `.` in the column 79 after it:
\*     955v
\*     p  <  ...  @.
StoreAtEdge ==
    [ source |-> <<<<57, 53, 53, 118>>,
          [j \in 1..GRID_WIDTH |->
              CASE j = 1 -> 112 [] j = 4 -> 60 [] j = GRID_WIDTH - 1 -> 64
                [] j = GRID_WIDTH -> 46 [] OTHER -> 32]>>,
      bytes |-> {}, reads |-> FALSE, random |-> FALSE ]

\* stores the product of two input bytes, keeps a copy, and loads the cell:
\*     ~~*:55p55g.@
StoreThenLoad ==
    [ source |-> <<<<126, 126, 42, 58, 53, 53, 112, 53, 53, 103, 46, 64>>>>,
      bytes |-> {2, 200, 255}, reads |-> TRUE, random |-> FALSE ]

Programs ==
    << SelfStore, StaleEntry, EdgeBranch, RandomWalk, Blank, StoreAnywhere,
       IllegalAfterOutput, Arithmetic, InputBranch, BranchUp, PopEmpty,
       IllegalAfterBranch, EchoBytes, EndAtOrigin, ReadDecimal, SignedRead,
       SharedEntry, Bridge, StringOfStored, StoreAtEdge, StoreThenLoad >>

\* The input streams and the random directions a program is run with.
Inputs(t) == UNION {[1..k -> t.bytes] : k \in 0..(IF t.reads THEN MaxInput ELSE 0)}

Randoms(t) == [1..(IF t.random THEN MaxRand ELSE 0) -> Direction]

\* ------------------------------------------------------------------------
\* Stack, arithmetic, I/O helpers
\* ------------------------------------------------------------------------
\* Vec::pop().unwrap_or_default(): the value popped and the stack left
Top(s) == IF Len(s) = 0 THEN 0 ELSE s[Len(s)]

Rest(s) == IF Len(s) = 0 THEN s ELSE SubSeq(s, 1, Len(s) - 1)

\* Rust's / on integers truncates towards zero
rust_div(a, b) ==
    LET q == (IF a >= 0 THEN a ELSE -a) \div (IF b >= 0 THEN b ELSE -b)
    IN  IF (a >= 0) = (b >= 0) THEN q ELSE -q

\* BinaryOperation::call with the operands exchanged
BinaryOperation_call_exchanged(binary, a, b) ==
    CASE binary = "Add" -> [panic |-> FALSE, value |-> WrapInt(b + a)]
      [] binary = "Subtract" -> [panic |-> FALSE, value |-> WrapInt(b - a)]
      [] binary = "Multiply" -> [panic |-> FALSE, value |-> WrapInt(b * a)]
      [] binary = "Divide" ->
            IF a = 0 THEN [panic |-> TRUE, value |-> 0]
            ELSE [panic |-> FALSE, value |-> WrapInt(rust_div(b, a))]
      [] binary = "Remainder" ->
            IF a = 0 THEN [panic |-> TRUE, value |-> 0]
            ELSE [panic |-> FALSE, value |-> WrapInt(rust_rem(b, IF a >= 0 THEN a ELSE -a))]
      [] binary = "Greater" -> [panic |-> FALSE, value |-> IF b > a THEN 1 ELSE 0]

\* BinaryOperation::call; wrapping_div and wrapping_rem panic on a zero divisor
BinaryOperation_call(binary, a, b) ==
    CASE binary = "Add" -> [panic |-> FALSE, value |-> WrapInt(a + b)]
      [] binary = "Subtract" -> [panic |-> FALSE, value |-> WrapInt(a - b)]
      [] binary = "Multiply" -> [panic |-> FALSE, value |-> WrapInt(a * b)]
      [] binary = "Divide" ->
            IF b = 0 THEN [panic |-> TRUE, value |-> 0]
            ELSE [panic |-> FALSE, value |-> WrapInt(rust_div(a, b))]
      [] binary = "Remainder" ->
            IF b = 0 THEN [panic |-> TRUE, value |-> 0]
            ELSE [panic |-> FALSE, value |-> WrapInt(rust_rem(a, IF b >= 0 THEN b ELSE -b))]
      [] binary = "Greater" -> [panic |-> FALSE, value |-> IF a > b THEN 1 ELSE 0]

\* char::is_whitespace on `buffer as char`
is_whitespace(b) == b \in {9, 10, 11, 12, 13, 32, 133, 160}

\* The decimal digits of a non-negative number, as bytes
RECURSIVE Digits(_)
Digits(n) == IF n < 10 THEN <<Byte.zero + n>> ELSE Append(Digits(n \div 10), Byte.zero + (n % 10))

\* write!(output, "{} ", top)
FormatDecimal(top) ==
    (IF top < 0 THEN <<Byte.minus>> \o Digits(-top) ELSE Digits(top)) \o <<Byte.space>>

\* <Int as FromStr>::from_str on the bytes of a token
RECURSIVE DigitsValue(_)
DigitsValue(raw) ==
    IF Len(raw) = 0 THEN 0
    ELSE 10 * DigitsValue(SubSeq(raw, 1, Len(raw) - 1)) + (raw[Len(raw)] - Byte.zero)

from_str(raw) ==
    LET signed == Len(raw) > 0 /\ raw[1] \in {Byte.plus, Byte.minus}
        digits == IF signed THEN SubSeq(raw, 2, Len(raw)) ELSE raw
        value == IF signed /\ raw[1] = Byte.minus THEN -DigitsValue(digits) ELSE DigitsValue(digits)
    IN  IF Len(digits) = 0 \/ \E i \in 1..Len(digits) : digits[i] \notin Byte.zero .. Byte.nine
        THEN [kind |-> "InvalidData", value |-> 0]
        ELSE IF value < IntMin \/ value > IntMax THEN [kind |-> "InvalidData", value |-> 0]
        ELSE [kind |-> "Ok", value |-> value]

\* read_exact of one byte at position `pos` of the stream `in`: the byte, or
\* UnexpectedEof
AtEof(in, pos) == pos >= Len(in)

ReadFails(in, pos) == ~AtEof(in, pos) /\ in[pos + 1] = ReadFailure


\* `if ascii != 0xff { ascii.into() } else { -1 }`
ascii_value(ascii) == IF ascii # 255 THEN ascii ELSE -1

\* scan_next: the first loop skips whitespace and NUL and, at end-of-stream,
\* sets buffer = 0 and reads again, for ever; the second collects the token.
RECURSIVE scan_skip(_, _)
scan_skip(in, pos) ==
    IF AtEof(in, pos) THEN [kind |-> "NoReturn", pos |-> pos]
    ELSE IF is_whitespace(in[pos + 1]) \/ in[pos + 1] = 0 THEN scan_skip(in, pos + 1)
    ELSE [kind |-> "Ok", pos |-> pos]

RECURSIVE scan_token(_, _, _)
scan_token(in, pos, raw) ==
    IF AtEof(in, pos) THEN [raw |-> raw, pos |-> pos]
    ELSE IF is_whitespace(in[pos + 1]) \/ in[pos + 1] = 0 THEN [raw |-> raw, pos |-> pos + 1]
    ELSE scan_token(in, pos + 1, Append(raw, in[pos + 1]))

\* scan_next that takes a token for ended by a separator only: a token that
\* reaches the end of the stream is dropped
scan_next_needs_separator(in, pos) ==
    LET skipped == scan_skip(in, pos)
        token == scan_token(in, skipped.pos, <<>>)
        ended == token.pos > skipped.pos + Len(token.raw)
        parsed == from_str(IF ended THEN token.raw ELSE <<>>)
    IN  IF skipped.kind = "NoReturn" THEN [kind |-> "NoReturn", value |-> 0, pos |-> skipped.pos]
        ELSE IF \E i \in 1..Len(token.raw) : token.raw[i] > 127
        THEN [kind |-> "InvalidData", value |-> 0, pos |-> token.pos]
        ELSE [kind |-> parsed.kind, value |-> parsed.value, pos |-> token.pos]

scan_next(in, pos) ==
    LET skipped == scan_skip(in, pos)
        token == scan_token(in, skipped.pos, <<>>)
        parsed == from_str(token.raw)
    IN  IF skipped.kind = "NoReturn" THEN [kind |-> "NoReturn", value |-> 0, pos |-> skipped.pos]
        ELSE IF \E i \in 1..Len(token.raw) : token.raw[i] > 127
        THEN [kind |-> "InvalidData", value |-> 0, pos |-> token.pos]
        ELSE [kind |-> parsed.kind, value |-> parsed.value, pos |-> token.pos]

\* ------------------------------------------------------------------------
\* Block cache and reverse index
\* ------------------------------------------------------------------------
Range(seq) == {seq[i] : i \in 1..Len(seq)}

\* HashMap::remove of a set of keys
RemoveKeys(map, keys) == [k \in (DOMAIN map) \ keys |-> map[k]]

\* HashMap insert
Insert(map, key, value) == [k \in (DOMAIN map) \cup {key} |-> IF k = key THEN value ELSE map[k]]

\* the entry is listed for the first cell of the trace only
push_entries_first_cell(map, elements, entry) ==
    [map EXCEPT ![elements[1].y][elements[1].x] = Append(@, entry)]

\* `for cell in elements { grid_block_map[cell.y][cell.x].push(program_counter) }`:
\* the entry is appended to a cell's list once for every time the cell is in
\* `elements`
push_entries(map, elements, entry) ==
    LET times(cell) == Cardinality({i \in 1..Len(elements) : elements[i] = cell})
        rows == {elements[i].y : i \in 1..Len(elements)}
    IN  [y \in DOMAIN map |->
            IF y \notin rows THEN map[y]
            ELSE [x \in DOMAIN map[y] |->
                    map[y][x] \o [i \in 1..times(Position(x, y)) |-> entry]]]

\* ensure_basic_block that counts and records a compilation before it is
\* known to have succeeded
ensure_basic_block_records_failure(pc, blocks, grid, map, compiles) ==
    IF pc \in DOMAIN blocks
    THEN [kind |-> "Ok", hit |-> TRUE, block |-> blocks[pc], elements |-> <<>>,
          basic_blocks |-> blocks, grid_block_map |-> map,
          basic_block_compiles |-> compiles, command |-> 0]
    ELSE CHOOSE r \in {
             [kind |-> compiled.kind, hit |-> FALSE, block |-> compiled.block,
              elements |-> compiled.elements,
              basic_blocks |-> Insert(blocks, pc, compiled.block),
              grid_block_map |-> push_entries(map, compiled.elements, pc),
              basic_block_compiles |-> compiles + 1, command |-> compiled.command] :
             compiled \in {compile_basic_block_from(pc, grid)}} : TRUE

\* ensure_basic_block that compiles and records the block again on a hit
ensure_basic_block_compiles_again(pc, blocks, grid, map, compiles) ==
    CHOOSE r \in {
        IF compiled.kind = "Ok"
        THEN [kind |-> "Ok", hit |-> pc \in DOMAIN blocks, block |-> compiled.block,
              elements |-> compiled.elements,
              basic_blocks |-> Insert(blocks, pc, compiled.block),
              grid_block_map |-> push_entries(map, compiled.elements, pc),
              basic_block_compiles |-> compiles + 1, command |-> 0]
        ELSE [kind |-> compiled.kind, hit |-> FALSE, block |-> compiled.block,
              elements |-> <<>>, basic_blocks |-> blocks, grid_block_map |-> map,
              basic_block_compiles |-> compiles, command |-> compiled.command] :
        compiled \in {compile_basic_block_from(pc, grid)}} : TRUE

\* ensure_basic_block: the block handed to the run loop and the cache after it
ensure_basic_block(pc, blocks, grid, map, compiles) ==
    IF pc \in DOMAIN blocks
    THEN [kind |-> "Ok", hit |-> TRUE, block |-> blocks[pc], elements |-> <<>>,
          basic_blocks |-> blocks, grid_block_map |-> map,
          basic_block_compiles |-> compiles, command |-> 0]
    ELSE CHOOSE r \in {
             IF compiled.kind = "Ok"
             THEN [kind |-> "Ok", hit |-> FALSE, block |-> compiled.block,
                   elements |-> compiled.elements,
                   basic_blocks |-> Insert(blocks, pc, compiled.block),
                   grid_block_map |-> push_entries(map, compiled.elements, pc),
                   basic_block_compiles |-> compiles + 1, command |-> 0]
             ELSE [kind |-> compiled.kind, hit |-> FALSE, block |-> compiled.block,
                   elements |-> <<>>, basic_blocks |-> blocks, grid_block_map |-> map,
                   basic_block_compiles |-> compiles, command |-> compiled.command] :
             compiled \in {compile_basic_block_from(pc, grid)}} : TRUE

\* invalidate_bytecode without `self.basic_blocks.remove(invalid_entry_point)`
invalidate_bytecode_keeps_blocks(blocks, map, cell) ==
    LET invalid_entry_points == map[cell.y][cell.x]
    IN  [basic_blocks |-> blocks,
         grid_block_map |-> [map EXCEPT ![cell.y][cell.x] = <<>>],
         invalidated |-> [i \in 1..Len(invalid_entry_points) |-> invalid_entry_points[i].position]]

\* invalidate_bytecode: every entry listed for the cell is removed from the
\* forward cache, the cell's list is drained, the positions are returned
invalidate_bytecode(blocks, map, cell) ==
    LET invalid_entry_points == map[cell.y][cell.x]
    IN  [basic_blocks |-> RemoveKeys(blocks, Range(invalid_entry_points)),
         grid_block_map |-> [map EXCEPT ![cell.y][cell.x] = <<>>],
         invalidated |-> [i \in 1..Len(invalid_entry_points) |-> invalid_entry_points[i].position]]

\* a block that never sees itself among the invalidated entries
InvalidatedSelf_never(invalidated_entries, entry_point) == FALSE

\* `invalidated_entries.contains(&self.entry_point.position)`
InvalidatedSelf(invalidated_entries, entry_point) ==
    entry_point.position \in Range(invalidated_entries)

\* ------------------------------------------------------------------------
\* State
\* ------------------------------------------------------------------------
VARIABLES
    \* the environment: the bytes of the input stream, the directions the
    \* random source yields, the lines of the program text
    input, rand, grid_text,
    \* struct JustInTimeCompiler
    basic_blocks, program_grid, grid_block_map, stack, program_counter,
    input_pos, output, rng_pos, basic_block_compiles,
    \* JustInTimeCompiler::run_forever: where it is ("ensure", "execute",
    \* "resolve", "returned", "panicked", "stuck"), the block it holds, the
    \* index of the next op, the result of execute, the value returned
    jit_at, basic_block, op_index, result, returned,
    \* history: the cells visited by the trace of each cached block and of the
    \* held block, the number of successful cache misses, the last step taken
    block_elements, basic_block_elements, misses, last,
    \* struct Interpreter, and the value Interpreter::run_forever returned
    interp, interp_returned

env_vars == <<input, rand, grid_text>>

jit_fields == <<basic_blocks, program_grid, grid_block_map, stack, program_counter,
                input_pos, output, rng_pos, basic_block_compiles>>

jit_locals == <<jit_at, basic_block, op_index, result, returned>>

history == <<block_elements, basic_block_elements, misses, last>>

interp_vars == <<interp, interp_returned>>

vars == <<env_vars, jit_fields, jit_locals, history, interp_vars>>

NoError == [kind |-> "None", value |-> 0]

Error(kind, value) == [kind |-> kind, value |-> value]

\* Result<ControlFlowDecision, Error> of BasicBlock::execute
ExecOk(cf_decision) == [ok |-> TRUE, cf_decision |-> cf_decision, error |-> NoError]

ExecErr(error) == [ok |-> FALSE, cf_decision |-> EndProgram, error |-> error]

NoResult == ExecErr(NoError)

EmptyMap == [k \in {} |-> 0]

\* The last step: what it was, and the stack, the output, the random draws,
\* the op index and the bytes read before it; for a SetValue the target, whether it is a
\* cell, the op's pc_after, whether the target is on the held block's trace,
\* the entries it removed from the forward cache, and those of them whose
\* trace did not visit the target; for a terminator the decision resolved and
\* whether it is the Jump a SetValue put in place of the block's own (then
\* with that SetValue's pc_after).
Event(what) ==
    [what |-> what,
     before |-> [stack |-> stack, output |-> output, rng_pos |-> rng_pos,
                 op_index |-> op_index, input_pos |-> input_pos],
     cell |-> Position(0, 0), in_grid |-> FALSE, pc_after |-> PCDefault,
     on_trace |-> FALSE, removed |-> {}, spurious |-> {}, synthetic |-> FALSE,
     cf_decision |-> EndProgram]

\* new_with_io
Init ==
    \E i \in 1..Len(Programs) : LET t == Programs[i] IN
        /\ parse_grid(t.source).kind = "Ok"
        /\ input \in Inputs(t)
        /\ rand \in Randoms(t)
        /\ grid_text = t.source
        /\ basic_blocks = EmptyMap
        /\ program_grid = parse_grid(t.source).grid
        /\ grid_block_map = [y \in 0..(GRID_HEIGHT - 1) |-> [x \in 0..(GRID_WIDTH - 1) |-> <<>>]]
        /\ stack = <<>>
        /\ program_counter = PCDefault
        /\ input_pos = 0
        /\ output = <<>>
        /\ rng_pos = 0
        /\ basic_block_compiles = 0
        /\ jit_at = "ensure"
        /\ basic_block = BasicBlock_new(PCDefault)
        /\ op_index = 1
        /\ result = NoResult
        /\ returned = NoError
        /\ block_elements = EmptyMap
        /\ basic_block_elements = <<>>
        /\ misses = 0
        /\ last = [what |-> "new",
                   before |-> [stack |-> <<>>, output |-> <<>>, rng_pos |-> 0, op_index |-> 1,
                               input_pos |-> 0],
                   cell |-> Position(0, 0), in_grid |-> FALSE, pc_after |-> PCDefault,
                   on_trace |-> FALSE, removed |-> {}, spurious |-> {}, synthetic |-> FALSE,
                   cf_decision |-> EndProgram]
        /\ interp = [program_grid |-> parse_grid(t.source).grid, stack |-> <<>>,
                     string_mode |-> FALSE, program_counter |-> PCDefault,
                     input_pos |-> 0, output |-> <<>>, rng_pos |-> 0, steps |-> 0]
        /\ interp_returned = NoError

\* ------------------------------------------------------------------------
\* JustInTimeCompiler::run_forever, step by step
\* ------------------------------------------------------------------------
\* `let basic_block = self.ensure_basic_block()?;` when the block is cached
EnsureHit ==
    /\ jit_at = "ensure"
    /\ program_counter \in DOMAIN basic_blocks
    /\ \E e \in {ensure_basic_block(program_counter, basic_blocks, program_grid,
                                     grid_block_map, basic_block_compiles)} :
           /\ basic_blocks' = e.basic_blocks
           /\ grid_block_map' = e.grid_block_map
           /\ basic_block_compiles' = e.basic_block_compiles
           /\ basic_block' = e.block
    /\ basic_block_elements' = block_elements[program_counter]
    /\ jit_at' = "execute"
    /\ op_index' = 1
    /\ last' = Event("hit")
    /\ UNCHANGED <<program_grid, stack, program_counter, input_pos, output, rng_pos,
                   result, returned, block_elements, misses, env_vars, interp_vars>>

\* the same statement when it is not: the block is compiled and recorded, or
\* the compiler fails, panics or never returns
EnsureMiss ==
    /\ jit_at = "ensure"
    /\ program_counter \notin DOMAIN basic_blocks
    /\ basic_block_compiles < MaxCompiles
    /\ \E e \in {ensure_basic_block(program_counter, basic_blocks, program_grid,
                                     grid_block_map, basic_block_compiles)} :
           /\ basic_blocks' = e.basic_blocks
           /\ grid_block_map' = e.grid_block_map
           /\ basic_block_compiles' = e.basic_block_compiles
           /\ basic_block' = IF e.kind = "Ok" THEN e.block ELSE basic_block
           /\ basic_block_elements' = e.elements
           /\ block_elements' = IF e.kind = "Ok"
                                THEN Insert(block_elements, program_counter, e.elements)
                                ELSE block_elements
           /\ misses' = IF e.kind = "Ok" THEN misses + 1 ELSE misses
           /\ jit_at' = CASE e.kind = "Ok" -> "execute"
                          [] e.kind = "IllegalCommand" -> "returned"
                          [] e.kind = "Panic" -> "panicked"
                          [] e.kind = "NoReturn" -> "stuck"
           /\ returned' = IF e.kind = "IllegalCommand"
                          THEN Error("IllegalCommand", e.command) ELSE returned
           /\ last' = [Event("miss") EXCEPT !.what =
                          IF e.kind = "Ok" THEN "miss" ELSE "miss failed"]
    /\ op_index' = 1
    /\ UNCHANGED <<program_grid, stack, program_counter, input_pos, output, rng_pos,
                   result, env_vars, interp_vars>>

\* The op the for loop of BasicBlock::execute is at.
AtOp(kind) ==
    /\ jit_at = "execute"
    /\ op_index <= Len(basic_block.bytecode)
    /\ basic_block.bytecode[op_index].op = kind

CurrentOp == basic_block.bytecode[op_index]

\* An op that only changes the stack, then the next op.
StackOp(kind, new_stack) ==
    /\ AtOp(kind)
    /\ stack' = new_stack
    /\ op_index' = op_index + 1
    /\ last' = Event(kind)
    /\ UNCHANGED <<basic_blocks, program_grid, grid_block_map, program_counter, input_pos,
                   output, rng_pos, basic_block_compiles, jit_at, basic_block, result,
                   returned, block_elements, basic_block_elements, misses,
                   env_vars, interp_vars>>

ExecPushConstant == StackOp("PushConstant", Append(stack, CurrentOp.num))

ExecDuplicate == StackOp("Duplicate", Append(Append(Rest(stack), Top(stack)), Top(stack)))

ExecSwap ==
    StackOp("Swap", LET first == Top(stack)
                        second == Top(Rest(stack))
                    IN  Append(Append(Rest(Rest(stack)), first), second))

ExecDrop == StackOp("Drop", Rest(stack))

ExecNegate == StackOp("Negate", Append(Rest(stack), IF Top(stack) = 0 THEN 1 ELSE 0))

ExecGetValue ==
    StackOp("GetValue",
            LET y == Top(stack)
                x == Top(Rest(stack))
            IN  Append(Rest(Rest(stack)),
                       IF ~(x >= 0 /\ x < GRID_WIDTH) \/ ~(y >= 0 /\ y < GRID_HEIGHT)
                       THEN 0 ELSE AsI8(program_grid[y][x])))

\* An op that ends the run without returning: a panic, or a wait without end.
Abandon(at) ==
    /\ jit_at' = at
    /\ UNCHANGED <<op_index, result, returned>>

\* An op that fails: execute returns Err.
Fail(error) ==
    /\ jit_at' = "resolve"
    /\ result' = ExecErr(error)
    /\ UNCHANGED <<op_index, returned>>

\* An op that completes: the for loop goes on.
Continue ==
    /\ op_index' = op_index + 1
    /\ UNCHANGED <<jit_at, result, returned>>

ExecBinary ==
    /\ AtOp("Binary")
    /\ LET b == Top(stack)
           a == Top(Rest(stack))
           r == BinaryOperation_call(CurrentOp.mode, a, b)
       IN  IF r.panic
           THEN stack' = Rest(Rest(stack)) /\ Abandon("panicked")
           ELSE stack' = Append(Rest(Rest(stack)), r.value) /\ Continue
    /\ last' = Event("Binary")
    /\ UNCHANGED <<basic_blocks, program_grid, grid_block_map, program_counter, input_pos,
                   output, rng_pos, basic_block_compiles, basic_block,
                   block_elements, basic_block_elements, misses, env_vars, interp_vars>>

ExecInputAscii ==
    /\ AtOp("Input")
    /\ CurrentOp.mode = "Ascii"
    /\ LET ascii == IF AtEof(input, input_pos) THEN 255 ELSE input[input_pos + 1]
       IN  /\ input_pos' = IF AtEof(input, input_pos) THEN input_pos ELSE input_pos + 1
           /\ IF ReadFails(input, input_pos)
              THEN stack' = stack /\ Fail(Error("Io", 0))
              ELSE stack' = Append(stack, ascii_value(ascii)) /\ Continue
    /\ last' = Event("Input")
    /\ UNCHANGED <<basic_blocks, program_grid, grid_block_map, program_counter,
                   output, rng_pos, basic_block_compiles, basic_block,
                   block_elements, basic_block_elements, misses, env_vars, interp_vars>>

ExecInputDecimal ==
    /\ AtOp("Input")
    /\ CurrentOp.mode = "Decimal"
    /\ LET number == scan_next(input, input_pos)
       IN  /\ input_pos' = number.pos
           /\ CASE number.kind = "Ok" -> stack' = Append(stack, number.value) /\ Continue
                [] number.kind = "InvalidData" ->
                      stack' = stack /\ Fail(Error("Io", 0))
                [] number.kind = "NoReturn" -> stack' = stack /\ Abandon("stuck")
    /\ last' = Event("Input")
    /\ UNCHANGED <<basic_blocks, program_grid, grid_block_map, program_counter,
                   output, rng_pos, basic_block_compiles, basic_block,
                   block_elements, basic_block_elements, misses, env_vars, interp_vars>>

\* a test that takes the value for a byte
is_ascii_any_byte(top) == top >= 0 /\ top <= 255

\* char::try_from(u32::try_from(top)) succeeds and the char is_ascii()
is_ascii(top) == top >= 0 /\ top <= 127

ExecOutputAscii ==
    /\ AtOp("Output")
    /\ CurrentOp.mode = "Ascii"
    /\ LET top == Top(stack)
       IN  /\ stack' = Rest(stack)
           /\ IF ~is_ascii(top)
              THEN output' = output /\ Fail(Error("NonAscii", top))
              ELSE output' = Append(output, top) /\ Continue
    /\ last' = Event("Output")
    /\ UNCHANGED <<basic_blocks, program_grid, grid_block_map, program_counter, input_pos,
                   rng_pos, basic_block_compiles, basic_block,
                   block_elements, basic_block_elements, misses, env_vars, interp_vars>>

ExecOutputDecimal ==
    /\ AtOp("Output")
    /\ CurrentOp.mode = "Decimal"
    /\ stack' = Rest(stack)
    /\ output' = output \o FormatDecimal(Top(stack))
    /\ Continue
    /\ last' = Event("Output")
    /\ UNCHANGED <<basic_blocks, program_grid, grid_block_map, program_counter, input_pos,
                   rng_pos, basic_block_compiles, basic_block,
                   block_elements, basic_block_elements, misses, env_vars, interp_vars>>

\* Operation::SetValue { pc_after }
ExecSetValue ==
    /\ AtOp("SetValue")
    /\ LET y == Top(stack)
           x == Top(Rest(stack))
           position == Position(x, y)
           value == Top(Rest(Rest(stack)))
           inv == invalidate_bytecode(basic_blocks, grid_block_map, position)
       IN  /\ stack' = Rest(Rest(Rest(stack)))
           /\ program_grid' = IF InGrid(x, y)
                              THEN [program_grid EXCEPT ![y][x] = AsU8(value)]
                              ELSE program_grid
           /\ IF IndexPanics(position)
              THEN /\ Abandon("panicked")
                   /\ UNCHANGED <<basic_blocks, grid_block_map, block_elements>>
                   /\ last' = [Event("SetValue") EXCEPT !.cell = position,
                                  !.pc_after = CurrentOp.pc_after]
              ELSE /\ basic_blocks' = inv.basic_blocks
                   /\ grid_block_map' = inv.grid_block_map
                   /\ block_elements' = RemoveKeys(block_elements,
                                            (DOMAIN basic_blocks) \ (DOMAIN inv.basic_blocks))
                   /\ IF InvalidatedSelf(inv.invalidated, basic_block.entry_point)
                      THEN /\ jit_at' = "resolve"
                           /\ result' = ExecOk(Jump(CurrentOp.pc_after))
                           /\ UNCHANGED <<op_index, returned>>
                      ELSE Continue
                   /\ last' = [Event("SetValue") EXCEPT
                                  !.cell = position, !.in_grid = TRUE,
                                  !.pc_after = CurrentOp.pc_after,
                                  !.on_trace = position \in Range(basic_block_elements),
                                  !.removed = (DOMAIN basic_blocks) \ (DOMAIN inv.basic_blocks),
                                  !.spurious =
                                      {e \in (DOMAIN basic_blocks) \ (DOMAIN inv.basic_blocks) :
                                          position \notin Range(block_elements[e])}]
    /\ UNCHANGED <<program_counter, input_pos, output, rng_pos, basic_block_compiles,
                   basic_block, basic_block_elements, misses, env_vars, interp_vars>>

\* `Ok(self.cf_decision)` after the last op
ExecuteReturn ==
    /\ jit_at = "execute"
    /\ op_index > Len(basic_block.bytecode)
    /\ jit_at' = "resolve"
    /\ result' = ExecOk(basic_block.cf_decision)
    /\ last' = Event("end of block")
    /\ UNCHANGED <<jit_fields, basic_block, op_index, returned,
                   block_elements, basic_block_elements, misses, env_vars, interp_vars>>

\* `match result` in run_forever
Resolving(kind) ==
    /\ jit_at = "resolve"
    /\ result.ok
    /\ result.cf_decision.kind = kind

Resolved(what) ==
    [Event(what) EXCEPT !.cf_decision = result.cf_decision,
                        !.synthetic = (last.what = "SetValue"),
                        !.pc_after = last.pc_after]

ResolveJump ==
    /\ Resolving("Jump")
    /\ program_counter' = result.cf_decision.targets[1]
    /\ jit_at' = "ensure"
    /\ last' = Resolved("Jump")
    /\ UNCHANGED <<basic_blocks, program_grid, grid_block_map, stack, input_pos, output,
                   rng_pos, basic_block_compiles, basic_block, op_index, result, returned,
                   block_elements, basic_block_elements, misses, env_vars, interp_vars>>

\* the two targets exchanged
branch_target_exchanged(popped, true_target, false_target) ==
    IF popped = 0 THEN true_target ELSE false_target

\* `if result == 0 { false_target } else { true_target }`
branch_target(popped, true_target, false_target) ==
    IF popped = 0 THEN false_target ELSE true_target

ResolveBranch ==
    /\ Resolving("Branch")
    /\ stack' = Rest(stack)
    /\ program_counter' = branch_target(Top(stack), result.cf_decision.targets[1],
                                        result.cf_decision.targets[2])
    /\ jit_at' = "ensure"
    /\ last' = Resolved("Branch")
    /\ UNCHANGED <<basic_blocks, program_grid, grid_block_map, input_pos, output,
                   rng_pos, basic_block_compiles, basic_block, op_index, result, returned,
                   block_elements, basic_block_elements, misses, env_vars, interp_vars>>

\* the End terminator surfaced as the ProgramEnd error
run_forever_return_sentinel(res) ==
    IF res.ok \/ res.error.kind = "ProgramEnd" THEN Error("ProgramEnd", 0) ELSE res.error

\* The value run_forever returns for the result of execute that ends the
\* run: `ControlFlowDecision::EndProgram => return Ok(())`,
\* `Err(Error::ProgramEnd) => return Ok(())`, `Err(why) => return Err(why)`
run_forever_return(res) ==
    IF res.ok \/ res.error.kind = "ProgramEnd" THEN Error("Ok", 0) ELSE res.error

ResolveEndProgram ==
    /\ Resolving("EndProgram")
    /\ jit_at' = "returned"
    /\ returned' = run_forever_return(result)
    /\ last' = Resolved("EndProgram")
    /\ UNCHANGED <<jit_fields, basic_block, op_index, result,
                   block_elements, basic_block_elements, misses, env_vars, interp_vars>>

\* The index in `choices` of a direction: [Up, Down, Left, Right]
\* choose that always takes the first choice
ChoiceIndex_first(direction) == 1

ChoiceIndex(direction) ==
    CASE direction = "Up" -> 1 [] direction = "Down" -> 2
      [] direction = "Left" -> 3 [] direction = "Right" -> 4

ResolveRandom ==
    /\ Resolving("Random")
    /\ rng_pos < Len(rand)
    /\ program_counter' = result.cf_decision.targets[ChoiceIndex(rand[rng_pos + 1])]
    /\ rng_pos' = rng_pos + 1
    /\ jit_at' = "ensure"
    /\ last' = Resolved("Random")
    /\ UNCHANGED <<basic_blocks, program_grid, grid_block_map, stack, input_pos, output,
                   basic_block_compiles, basic_block, op_index, result, returned,
                   block_elements, basic_block_elements, misses, env_vars, interp_vars>>

\* `Err(Error::ProgramEnd) => return Ok(())`, `Err(why) => return Err(why)`
ResolveErr ==
    /\ jit_at = "resolve"
    /\ ~result.ok
    /\ jit_at' = "returned"
    /\ returned' = run_forever_return(result)
    /\ last' = Event("Err")
    /\ UNCHANGED <<jit_fields, basic_block, op_index, result,
                   block_elements, basic_block_elements, misses, env_vars, interp_vars>>

JitNext ==
    \/ EnsureHit \/ EnsureMiss
    \/ ExecPushConstant \/ ExecDuplicate \/ ExecSwap \/ ExecDrop \/ ExecNegate
    \/ ExecGetValue \/ ExecBinary \/ ExecInputAscii \/ ExecInputDecimal
    \/ ExecOutputAscii \/ ExecOutputDecimal \/ ExecSetValue \/ ExecuteReturn
    \/ ResolveJump \/ ResolveBranch \/ ResolveEndProgram \/ ResolveRandom \/ ResolveErr

\* ------------------------------------------------------------------------
\* Interpreter::run_step and Interpreter::run_forever
\* ------------------------------------------------------------------------
\* move_pc!()
move_pc(pc) == constrain(step(pc))

StepResult(it, kind, value) == [interp |-> it, kind |-> kind, value |-> value]

\* run_step on the interpreter `it`; `direction` is what `self.rng.gen()`
\* yields if the step draws it.  The kinds are Ok, the Error kinds, "Panic"
\* and "NoReturn".
run_step(it, in, direction) ==
    LET counted == [it EXCEPT !.steps = @ + 1]
        pc == it.program_counter
        current_char == it.program_grid[pc.position.y][pc.position.x]
        \* a command that leaves `new_stack` and moves on in the direction held
        moved(new_stack) ==
            StepResult([counted EXCEPT !.stack = new_stack, !.program_counter = move_pc(pc)],
                       "Ok", 0)
        \* a command that sets the direction and moves
        turned(new_stack, new_direction) ==
            StepResult([counted EXCEPT !.stack = new_stack,
                           !.program_counter = move_pc([pc EXCEPT !.direction = new_direction])],
                       "Ok", 0)
        top == Top(it.stack)
        second == Top(Rest(it.stack))
        third == Top(Rest(Rest(it.stack)))
        rest1 == Rest(it.stack)
        rest2 == Rest(Rest(it.stack))
        rest3 == Rest(Rest(Rest(it.stack)))
        binary(op) ==
            IF BinaryOperation_call(op, second, top).panic
            THEN StepResult([counted EXCEPT !.stack = rest2], "Panic", 0)
            ELSE moved(Append(rest2, BinaryOperation_call(op, second, top).value))
    IN
    IF it.string_mode THEN
        IF current_char = Byte.quote
        THEN StepResult([counted EXCEPT !.string_mode = FALSE, !.program_counter = move_pc(pc)],
                        "Ok", 0)
        ELSE moved(Append(it.stack, current_char))
    ELSE
    CASE current_char \in {Byte.gt, Byte.lt, Byte.caret, Byte.v} ->
            turned(it.stack, Redirect(current_char))
      [] current_char = Byte.question ->
            StepResult([counted EXCEPT !.rng_pos = @ + 1,
                           !.program_counter = move_pc([pc EXCEPT !.direction = direction])],
                       "Ok", 0)
      [] current_char = Byte.hash ->
            StepResult([counted EXCEPT !.program_counter = move_pc(move_pc(pc))], "Ok", 0)
      [] current_char = Byte.space -> moved(it.stack)
      [] current_char = Byte.quote ->
            StepResult([counted EXCEPT !.string_mode = TRUE, !.program_counter = move_pc(pc)],
                       "Ok", 0)
      [] current_char \in Byte.zero .. Byte.nine ->
            moved(Append(it.stack, current_char - Byte.zero))
      [] current_char = Byte.colon -> moved(Append(Append(rest1, top), top))
      [] current_char = Byte.backslash -> moved(Append(Append(rest2, top), second))
      [] current_char = Byte.dollar -> moved(rest1)
      [] current_char = Byte.plus -> binary("Add")
      [] current_char = Byte.minus -> binary("Subtract")
      [] current_char = Byte.star -> binary("Multiply")
      [] current_char = Byte.slash -> binary("Divide")
      [] current_char = Byte.percent -> binary("Remainder")
      [] current_char = Byte.bang -> moved(Append(rest1, IF top = 0 THEN 1 ELSE 0))
      [] current_char = Byte.backtick -> moved(Append(rest2, IF second > top THEN 1 ELSE 0))
      [] current_char = Byte.comma ->
            IF top < 0 \/ top > 127
            THEN StepResult([counted EXCEPT !.stack = rest1], "NonAscii", top)
            ELSE StepResult([counted EXCEPT !.stack = rest1, !.output = Append(@, top),
                                !.program_counter = move_pc(pc)], "Ok", 0)
      [] current_char = Byte.dot ->
            StepResult([counted EXCEPT !.stack = rest1, !.output = @ \o FormatDecimal(top),
                           !.program_counter = move_pc(pc)], "Ok", 0)
      [] current_char = Byte.tilde ->
            LET ascii == IF AtEof(in, it.input_pos) THEN 255 ELSE in[it.input_pos + 1]
            IN  IF ReadFails(in, it.input_pos)
                THEN StepResult([counted EXCEPT !.input_pos = @ + 1], "Io", 0)
                ELSE StepResult([counted EXCEPT
                               !.input_pos = IF AtEof(in, it.input_pos) THEN @ ELSE @ + 1,
                               !.stack = Append(@, ascii_value(ascii)),
                               !.program_counter = move_pc(pc)], "Ok", 0)
      [] current_char = Byte.amp ->
            (LET number == scan_next(in, it.input_pos)
             IN CASE number.kind = "Ok" ->
                        StepResult([counted EXCEPT !.input_pos = number.pos,
                                       !.stack = Append(@, number.value),
                                       !.program_counter = move_pc(pc)], "Ok", 0)
                  [] number.kind = "InvalidData" ->
                        StepResult([counted EXCEPT !.input_pos = number.pos], "Io", 0)
                  [] number.kind = "NoReturn" ->
                        StepResult([counted EXCEPT !.input_pos = number.pos], "NoReturn", 0))
      [] current_char = Byte.underscore ->
            turned(rest1, IF top = 0 THEN "Right" ELSE "Left")
      [] current_char = Byte.bar ->
            turned(rest1, IF top = 0 THEN "Down" ELSE "Up")
      [] current_char = Byte.g ->
            \* pops y, then x
            moved(Append(rest2,
                         IF ~(second >= 0 /\ second < GRID_WIDTH) \/ ~(top >= 0 /\ top < GRID_HEIGHT)
                         THEN 0 ELSE AsI8(it.program_grid[top][second])))
      [] current_char = Byte.p ->
            \* pops y, then x, then the value
            StepResult([counted EXCEPT
                           !.stack = rest3,
                           !.program_grid = IF InGrid(second, top)
                                            THEN [@ EXCEPT ![top][second] = AsU8(third)]
                                            ELSE @,
                           !.program_counter = move_pc(pc)], "Ok", 0)
      [] current_char = Byte.at -> StepResult(counted, "ProgramEnd", 0)
      [] OTHER -> StepResult(counted, "IllegalCommand", current_char)

\* The step draws a random direction.
DrawsDirection(it) ==
    /\ ~it.string_mode
    /\ it.program_grid[it.program_counter.position.y][it.program_counter.position.x]
           = Byte.question

\* How JustInTimeCompiler::run_forever ended, if it has: the value returned,
\* "Panic", or "NoReturn" (the compiler or the scanner repeats for ever).
JitOutcome ==
    CASE jit_at = "returned" -> returned
      [] jit_at = "panicked" -> Error("Panic", 0)
      [] jit_at = "stuck" -> Error("NoReturn", 0)
      [] OTHER -> NoError

\* One iteration of the loop of Interpreter::run_forever.  The interpreter is
\* run once the compiler's run has ended.
InterpStep ==
    /\ JitOutcome.kind # "None"
    /\ interp_returned.kind = "None"
    /\ interp.steps < MaxSteps
    /\ DrawsDirection(interp) => interp.rng_pos < Len(rand)
    /\ \E r \in {run_step(interp, input,
                          IF DrawsDirection(interp) THEN rand[interp.rng_pos + 1] ELSE "Right")} :
           /\ interp' = r.interp
           /\ interp_returned' =
                 CASE r.kind = "Ok" -> NoError
                   [] r.kind = "ProgramEnd" -> Error("Ok", 0)
                   [] OTHER -> Error(r.kind, r.value)
    /\ UNCHANGED <<env_vars, jit_fields, jit_locals, history>>

Next == JitNext \/ InterpStep

Spec == Init /\ [][Next]_vars

\* ------------------------------------------------------------------------
\* Properties
\* ------------------------------------------------------------------------
\* C1: Self-invalidation.  A SetValue of the held block that stores to a cell
\* on the block's own trace ends execute right there with Jump(pc_after): the
\* op index does not advance, the three operands are popped, the byte is in
\* the grid and the output written so far is kept.  The run loop then resolves
\* that Jump and nothing else: the program counter is the SetValue's pc_after,
\* no branch condition is popped, no direction is drawn, nothing is written and
\* the run does not end.
C1_SelfInvalidation ==
    /\ (last.what = "SetValue" /\ last.in_grid /\ last.on_trace) =>
          /\ jit_at = "resolve"
          /\ result = ExecOk(Jump(last.pc_after))
          /\ op_index = last.before.op_index
          /\ stack = Rest(Rest(Rest(last.before.stack)))
          /\ output = last.before.output
          /\ program_grid[last.cell.y][last.cell.x]
                 = AsU8(Top(Rest(Rest(last.before.stack))))
    /\ last.synthetic =>
          /\ last.what = "Jump"
          /\ jit_at = "ensure"
          /\ program_counter = last.pc_after
          /\ stack = last.before.stack
          /\ rng_pos = last.before.rng_pos
          /\ output = last.before.output
          /\ returned = NoError

\* A block whose own terminator is a Branch and which has ops after the
\* SetValue has been left through the SetValue's Jump with a non-empty stack.
C1_Witness ==
    /\ last.what = "Jump"
    /\ last.synthetic
    /\ basic_block.cf_decision.kind = "Branch"
    /\ op_index < Len(basic_block.bytecode)
    /\ stack # <<>>

\* C2: After a SetValue whose target is a cell, no block of the forward cache
\* has a compilation trace that visited the cell, whatever was compiled,
\* invalidated and recompiled before.
C2_NoCachedBlockVisitedStoredCell ==
    (last.what = "SetValue" /\ last.in_grid) =>
        \A e \in DOMAIN basic_blocks : last.cell \notin Range(block_elements[e])

\* A store has removed a block compiled a second time while another block
\* stayed in the cache.
C2_Witness ==
    /\ last.what = "SetValue"
    /\ last.in_grid
    /\ last.removed # {}
    /\ basic_blocks # EmptyMap
    /\ basic_block_compiles > Cardinality(DOMAIN basic_blocks) + Cardinality(last.removed)

\* C3: The compiler's run refines the interpreter's.  On the same grid, input
\* bytes and random directions, once both runs have ended they ended the same
\* way (success, the same error kind, a panic or a wait without end) with the
\* same output, the same grid and the same stack.
C3_JitRefinesInterpreter ==
    (JitOutcome.kind # "None" /\ interp_returned.kind # "None") =>
        /\ JitOutcome.kind = interp_returned.kind
        /\ output = interp.output
        /\ program_grid = interp.program_grid
        /\ stack = interp.stack

\* C4: At the start of every iteration of the run loop the position of the
\* program counter is a cell of the grid.
C4_ProgramCounterInGrid ==
    jit_at = "ensure" =>
        InGrid(program_counter.position.x, program_counter.position.y)

\* C5: Compiling a block from a start PC inside the grid comes to an end: it
\* returns a block with a terminator or fails with IllegalCommand.
C5_CompileReturns ==
    (/\ last.what \in {"miss", "miss failed"}
     /\ InGrid(program_counter.position.x, program_counter.position.y)) =>
        \/ /\ jit_at = "execute"
           /\ basic_block.cf_decision.kind \in {"Jump", "Branch", "EndProgram", "Random"}
        \/ /\ jit_at = "returned"
           /\ returned.kind = "IllegalCommand"

\* C6: Branch resolution.  When the run loop has resolved the Branch of a block
\* that ran to its end, one value is popped (0 from an empty stack) and the
\* program counter is, for `_`, the cell left of the terminator facing Left
\* when the value is not zero and the cell right of it facing Right when it
\* is; for `|`, the cell above facing Up when the value is not zero and the
\* cell below facing Down when it is.
C6_BranchResolution ==
    last.what = "Branch" =>
        LET cell == basic_block_elements[Len(basic_block_elements)]
            command == program_grid[cell.y][cell.x]
            value == Top(last.before.stack)
            facing == CASE command = Byte.underscore /\ value # 0 -> "Left"
                        [] command = Byte.underscore /\ value = 0 -> "Right"
                        [] command = Byte.bar /\ value # 0 -> "Up"
                        [] command = Byte.bar /\ value = 0 -> "Down"
                        [] OTHER -> "None"
        IN  /\ ~last.synthetic
            /\ op_index > Len(basic_block.bytecode)
            /\ stack = Rest(last.before.stack)
            /\ Len(stack) = IF last.before.stack = <<>> THEN 0
                            ELSE Len(last.before.stack) - 1
            /\ facing # "None"
            /\ program_counter = PC(PosAdd(cell, facing), facing)

\* A `|` has been resolved on a value that is not zero, with more below it.
C6_Witness ==
    /\ last.what = "Branch"
    /\ Top(last.before.stack) # 0
    /\ stack # <<>>
    /\ program_counter.direction = "Up"

\* C7: Cache hit idempotence.  When the block of the program counter is cached
\* the run loop is handed that block, and the forward cache, the reverse index
\* and the compile counter stay as they are; the compile counter is the
\* number of successful cache misses since construction.
C7_CacheHitIdempotence ==
    /\ [](basic_block_compiles = misses)
    /\ [][(jit_at = "ensure" /\ program_counter \in DOMAIN basic_blocks) =>
            /\ basic_block' = basic_blocks[program_counter]
            /\ jit_at' = "execute"
            /\ UNCHANGED <<basic_blocks, grid_block_map, basic_block_compiles>>]_vars

\* A cached block has been handed out after several compilations.
C7_Witness ==
    /\ last.what = "hit"
    /\ jit_at = "execute"
    /\ basic_block_compiles >= 2
    /\ basic_block = basic_blocks[program_counter]

\* C8, as stated: an entry is listed for a cell exactly when a block with that
\* entry is in the forward cache and its trace visited the cell.
C8_ReverseIndexExact ==
    \A y \in 0..(GRID_HEIGHT - 1), x \in 0..(GRID_WIDTH - 1) :
        Range(grid_block_map[y][x])
            = {e \in DOMAIN basic_blocks : Position(x, y) \in Range(block_elements[e])}

\* C8, amended: the entry of every block in the forward cache is listed for
\* every cell the block's trace visited.
C8_ReverseIndexCoversCache ==
    \A e \in DOMAIN basic_blocks :
        \A cell \in Range(block_elements[e]) :
            e \in Range(grid_block_map[cell.y][cell.x])

\* A cell lists an entry whose block is gone while other blocks are cached.
C8_Witness ==
    /\ basic_blocks # EmptyMap
    /\ \E y \in 0..(GRID_HEIGHT - 1), x \in 0..(GRID_WIDTH - 1) :
           \E e \in Range(grid_block_map[y][x]) : e \notin DOMAIN basic_blocks

\* C9: A store to a cell removes from the forward cache only blocks whose
\* trace visited the cell.
C9_StoreRemovesOnlyVisitors ==
    last.what = "SetValue" => last.spurious = {}

\* C10: A SetValue whose coordinates are outside the grid pops its three
\* operands, and the block goes on with its next op.
C10_OutOfGridStoreContinues ==
    (last.what = "SetValue" /\ ~InGrid(last.cell.x, last.cell.y)) =>
        /\ jit_at = "execute"
        /\ op_index = last.before.op_index + 1
        /\ stack = Rest(Rest(Rest(last.before.stack)))

\* The stack `s` with zeros under it until it holds `n` values.
Pad(s, n) == [i \in 1..(IF n > Len(s) THEN n - Len(s) ELSE 0) |-> 0] \o s

\* The stack `s`, which holds at least `n` values, without the `n` on top.
Below(s, n) == SubSeq(s, 1, Len(s) - n)

\* The number of values the step last taken pops.
Pops(what) ==
    CASE what \in {"Duplicate", "Drop", "Negate", "Output", "Branch"} -> 1
      [] what \in {"Swap", "Binary", "GetValue"} -> 2
      [] what = "SetValue" -> 3
      [] OTHER -> 0

\* C11: Pop-empty safety.  An op that pops, and the branch pop of the run
\* loop, taken on a stack with fewer values than it pops does not fail, and
\* whatever the stack held, the stack after it is the one obtained from the
\* stack padded at the bottom with zeros.
C11_PopEmptySafety ==
    Pops(last.what) > 0 =>
        LET n == Pops(last.what)
            s == Pad(last.before.stack, n)
            top == s[Len(s)]
            op == basic_block.bytecode[last.before.op_index]
        IN  /\ Len(last.before.stack) < n =>
                  /\ jit_at # "panicked"
                  /\ jit_at = "resolve" => result.ok
            /\ CASE last.what = "Duplicate" -> stack = s \o <<top>>
                 [] last.what = "Drop" -> stack = Below(s, 1)
                 [] last.what = "Negate" ->
                       stack = Below(s, 1) \o <<IF top = 0 THEN 1 ELSE 0>>
                 [] last.what = "Output" -> stack = Below(s, 1)
                 [] last.what = "Branch" -> stack = Below(s, 1)
                 [] last.what = "Swap" -> stack = Below(s, 2) \o <<top, s[Len(s) - 1]>>
                 [] last.what = "Binary" ->
                       jit_at # "panicked" =>
                           /\ Below(stack, 1) = Below(s, 2)
                           /\ Len(stack) = Len(s) - 1
                 [] last.what = "GetValue" ->
                       /\ Below(stack, 1) = Below(s, 2)
                       /\ Len(stack) = Len(s) - 1
                 [] last.what = "SetValue" -> stack = Below(s, 3)

\* ------------------------------------------------------------------------
\* Arithmetic on any two words
\* ------------------------------------------------------------------------
\* The state new_with_io returns for a program text, an input stream and the
\* directions the random source will yield.
new_with_io(source, in, directions) ==
    LET parsed_grid == parse_grid(source)
        failure == IF parsed_grid.kind = "Ok" THEN NoError
                   ELSE Error(parsed_grid.kind, parsed_grid.value)
    IN
    /\ input = in
    /\ grid_text = source
    /\ rand = directions
    /\ basic_blocks = EmptyMap
    /\ program_grid = parsed_grid.grid
    /\ grid_block_map = [y \in 0..(GRID_HEIGHT - 1) |-> [x \in 0..(GRID_WIDTH - 1) |-> <<>>]]
    /\ stack = <<>>
    /\ program_counter = PCDefault
    /\ input_pos = 0
    /\ output = <<>>
    /\ rng_pos = 0
    /\ basic_block_compiles = 0
    /\ jit_at = (IF parsed_grid.kind = "Ok" THEN "ensure" ELSE "returned")
    /\ basic_block = BasicBlock_new(PCDefault)
    /\ op_index = 1
    /\ result = NoResult
    /\ returned = failure
    /\ block_elements = EmptyMap
    /\ basic_block_elements = <<>>
    /\ misses = 0
    /\ last = [what |-> "new",
               before |-> [stack |-> <<>>, output |-> <<>>, rng_pos |-> 0, op_index |-> 1,
                               input_pos |-> 0],
               cell |-> Position(0, 0), in_grid |-> FALSE, pc_after |-> PCDefault,
               on_trace |-> FALSE, removed |-> {}, spurious |-> {}, synthetic |-> FALSE,
               cf_decision |-> EndProgram]
    /\ interp = [program_grid |-> parsed_grid.grid, stack |-> <<>>,
                 string_mode |-> FALSE, program_counter |-> PCDefault,
                 input_pos |-> 0, output |-> <<>>, rng_pos |-> 0, steps |-> 0]
    /\ interp_returned = failure

\* How far the words tried lie from the least word, from zero and from the
\* greatest word.
MaxWord == 2

Words ==
    (IntMin..(IntMin + MaxWord)) \cup ((-MaxWord)..MaxWord) \cup ((IntMax - MaxWord)..IntMax)

\* The commands compiled to Operation::Binary
BinaryCommands ==
    {Byte.plus, Byte.minus, Byte.star, Byte.slash, Byte.percent, Byte.backtick}

\* The program `&&c.@` for a binary command c, run on the input "a b ".
ArithInit ==
    \E c \in BinaryCommands, a \in Words, b \in Words :
        new_with_io(<<<<Byte.amp, Byte.amp, c, Byte.dot, Byte.at>>>>,
                    FormatDecimal(a) \o FormatDecimal(b), <<>>)

ArithNext ==
    \/ EnsureMiss \/ ExecInputDecimal \/ ExecBinary \/ ExecOutputDecimal
    \/ ExecuteReturn \/ ResolveEndProgram \/ InterpStep

ArithSpec == ArithInit /\ [][ArithNext]_vars

Abs(v) == IF v < 0 THEN -v ELSE v

\* C12: Wrapping arithmetic.  For all words a and b, Add, Subtract and
\* Multiply push the word congruent to the exact result modulo 2^IntBits;
\* Divide pushes the quotient truncated towards zero and Remainder the
\* remainder with the sign of a, with IntMin / -1 = IntMin and
\* IntMin % -1 = 0; and with b = 0 Divide and Remainder push a value too:
\* none of them fails or ends the run.
C12_WrappingArithmetic ==
    last.what = "Binary" =>
        LET b == Top(last.before.stack)
            a == Top(Rest(last.before.stack))
            binary == basic_block.bytecode[last.before.op_index].mode
            v == Top(stack)
        IN  /\ jit_at = "execute"
            /\ Len(stack) = Len(Pad(last.before.stack, 2)) - 1
            /\ v \in IntMin..IntMax
            /\ CASE binary = "Add" -> (v - (a + b)) % IntModulus = 0
                 [] binary = "Subtract" -> (v - (a - b)) % IntModulus = 0
                 [] binary = "Multiply" -> (v - (a * b)) % IntModulus = 0
                 [] binary = "Divide" /\ b # 0 ->
                       LET q == IF a = IntMin /\ b = -1 THEN -IntMin ELSE v
                           r == a - q * b
                       IN  /\ Abs(r) < Abs(b)
                           /\ r = 0 \/ (r > 0) = (a > 0)
                           /\ (a = IntMin /\ b = -1) => v = IntMin
                 [] binary = "Remainder" /\ b # 0 ->
                       /\ (a - v) % Abs(b) = 0
                       /\ Abs(v) < Abs(b)
                       /\ v = 0 \/ (v > 0) = (a > 0)
                 [] OTHER -> TRUE

\* The bytes compile_basic_block_from has an arm for.
Befunge93Commands ==
    PlainCommands \cup
    { Byte.gt, Byte.lt, Byte.caret, Byte.v, Byte.question, Byte.hash, Byte.space,
      Byte.quote, Byte.underscore, Byte.bar, Byte.at, Byte.p }

\* C13: Compile failure is atomic.  When the trace from the program counter
\* meets a byte that is no command, the run loop returns IllegalCommand with
\* that byte; no block is inserted, the reverse index and the compile counter
\* stay as they are, and the stack, the grid and the output are those before
\* the miss.
C13_CompileFailureAtomic ==
    [][(/\ jit_at = "ensure"
        /\ program_counter \notin DOMAIN basic_blocks
        /\ InGrid(program_counter.position.x, program_counter.position.y)
        /\ compile_basic_block_from(program_counter, program_grid).kind = "IllegalCommand") =>
            /\ jit_at' = "returned"
            /\ returned'.kind = "IllegalCommand"
            /\ returned'.value \notin Befunge93Commands
            /\ \E cell \in Cells : program_grid[cell.y][cell.x] = returned'.value
            /\ UNCHANGED <<basic_blocks, grid_block_map, basic_block_compiles,
                           stack, program_grid, output, program_counter>>]_vars

\* A miss has failed after a block was compiled and run: something is
\* written, the stack is not empty, and the failing entry is not cached.
C13_Witness ==
    /\ last.what = "miss failed"
    /\ jit_at = "returned"
    /\ returned.kind = "IllegalCommand"
    /\ basic_block_compiles >= 1
    /\ output # <<>>
    /\ stack # <<>>
    /\ program_counter \notin DOMAIN basic_blocks

\* C14: Output(Ascii) pops one value v.  If 0 <= v <= 127 it writes the byte
\* v and the block goes on; otherwise it fails with NonAscii, nothing is
\* written, the run loop returns that error without another op being
\* executed, and neither step changes the forward cache or the reverse index.
C14_OutputAscii ==
    /\ [](LET v == IF last.before.stack = <<>> THEN 0
                   ELSE last.before.stack[Len(last.before.stack)]
          IN  (/\ last.what = "Output"
               /\ basic_block.bytecode[last.before.op_index].mode = "Ascii") =>
                  (/\ Len(stack) = Len(Pad(last.before.stack, 1)) - 1
                   /\ v \in 0..127 =>
                         (/\ output = last.before.output \o <<v>>
                          /\ jit_at = "execute"
                          /\ op_index = last.before.op_index + 1)
                   /\ v \notin 0..127 =>
                         (/\ output = last.before.output
                          /\ jit_at = "resolve"
                          /\ result = ExecErr(Error("NonAscii", v))
                          /\ op_index = last.before.op_index)))
    /\ []((jit_at = "returned" /\ returned.kind = "NonAscii") =>
             (/\ last.what = "Err"
              /\ result = ExecErr(returned)
              /\ output = last.before.output
              /\ stack = last.before.stack
              /\ op_index = last.before.op_index))
    /\ [][(\/ AtOp("Output")
           \/ jit_at = "resolve" /\ ~result.ok) =>
              UNCHANGED <<basic_blocks, grid_block_map, program_grid>>]_vars

\* The run has returned NonAscii for a value above 127 after a byte was
\* written by the same block.
C14_Witness ==
    /\ jit_at = "returned"
    /\ returned.kind = "NonAscii"
    /\ returned.value > 127
    /\ output # <<>>

\* ------------------------------------------------------------------------
\* The run loop taken whenever it can be
\* ------------------------------------------------------------------------
FairSpec == Spec /\ WF_vars(JitNext)

\* C15: Program end.  The run loop returns success exactly when a block whose
\* terminator is EndProgram has run to its end; ProgramEnd is never the error
\* returned, by the compiler's run or the interpreter's; and on a grid with
\* `@` in cell (0,0) the run returns, with success, after one compilation,
\* nothing written, and the stack and the grid as they were.
C15_ProgramEnd ==
    /\ []((jit_at = "returned" /\ returned.kind = "Ok") =>
             (/\ last.what = "EndProgram"
              /\ ~last.synthetic
              /\ basic_block.cf_decision.kind = "EndProgram"
              /\ op_index = Len(basic_block.bytecode) + 1))
    /\ []((/\ last.what = "end of block"
           /\ basic_block.cf_decision.kind = "EndProgram") =>
             (jit_at = "resolve" /\ result = ExecOk(EndProgram)))
    /\ [][(jit_at = "resolve" /\ result = ExecOk(EndProgram)) =>
             (jit_at' = "returned" /\ returned' = Error("Ok", 0))]_vars
    /\ [](returned.kind # "ProgramEnd" /\ interp_returned.kind # "ProgramEnd")
    /\ []((interp.steps = 0 /\ interp.program_grid[0][0] = Byte.at) =>
             (/\ jit_at \notin {"panicked", "stuck"}
              /\ jit_at = "returned" =>
                    (/\ returned = Error("Ok", 0)
                     /\ basic_block_compiles = 1
                     /\ output = <<>>
                     /\ stack = <<>>
                     /\ program_grid = interp.program_grid)))
    /\ (last.what = "new" /\ program_grid[0][0] = Byte.at)
          ~> (jit_at = "returned" /\ returned = Error("Ok", 0))

\* The run on the grid `@` has returned success and the interpreter's too.
C15_Witness ==
    /\ program_grid[0][0] = Byte.at
    /\ jit_at = "returned"
    /\ returned = Error("Ok", 0)
    /\ interp_returned = Error("Ok", 0)
    /\ interp.steps = 1

\* The bytes of the stream `in` not yet read hold no token: all are whitespace.
NoToken(in, pos) == \A i \in (pos + 1)..Len(in) : is_whitespace(in[i])

\* C16: Input(Decimal) always returns.  When the input not yet read holds no
\* token the op fails with the Io error of kind InvalidData, and in no case
\* does it read for ever.
C16_InputDecimalReturns ==
    (/\ last.what = "Input"
     /\ basic_block.bytecode[last.before.op_index].mode = "Decimal") =>
        /\ jit_at # "stuck"
        /\ NoToken(input, last.before.input_pos) =>
              (jit_at = "resolve" /\ result = ExecErr(Error("Io", 0)))

\* C17, as stated: Input(Ascii) pushes the value of the byte read when there
\* is one, pushes -1 at end-of-stream, then and on every later read, and
\* fails with Io when the read fails otherwise.
C17_InputAsciiByteValue ==
    (/\ last.what = "Input"
     /\ basic_block.bytecode[last.before.op_index].mode = "Ascii") =>
        LET pos == last.before.input_pos
        IN  CASE pos >= Len(input) ->
                    /\ stack = last.before.stack \o <<-1>>
                    /\ jit_at = "execute"
                    /\ input_pos = pos
              [] pos < Len(input) /\ input[pos + 1] = ReadFailure ->
                    /\ stack = last.before.stack
                    /\ jit_at = "resolve"
                    /\ result = ExecErr(Error("Io", 0))
              [] OTHER ->
                    /\ stack = last.before.stack \o <<input[pos + 1]>>
                    /\ jit_at = "execute"
                    /\ input_pos = pos + 1

\* C18: GetValue pops y then x and pushes one value: 0 when (x, y) is outside
\* the grid, otherwise the byte of the cell read as a signed 8-bit integer
\* (0xFF reads -1, 0..127 read unchanged); the grid and the cache stay as
\* they are.
C18_GetValue ==
    /\ [](last.what = "GetValue" =>
            (LET s == Pad(last.before.stack, 2)
                 y == s[Len(s)]
                 x == s[Len(s) - 1]
                 v == IF x \in 0..79 /\ y \in 0..24
                      THEN (IF program_grid[y][x] <= 127 THEN program_grid[y][x]
                            ELSE program_grid[y][x] - 256)
                      ELSE 0
             IN  (/\ stack = Below(s, 2) \o <<v>>
                  /\ (x \in 0..79 /\ y \in 0..24 /\ program_grid[y][x] = 255) => (v = -1)
                  /\ jit_at = "execute"
                  /\ op_index = last.before.op_index + 1)))
    /\ [][(last'.what = "GetValue" /\ last' # last) =>
            (/\ program_grid' = program_grid
             /\ basic_blocks' = basic_blocks
             /\ grid_block_map' = grid_block_map)]_vars

\* GetValue has read -1 from a cell that holds 0xFF.
C18_Witness ==
    /\ last.what = "GetValue"
    /\ Len(last.before.stack) >= 2
    /\ Top(last.before.stack) \in 0..24
    /\ Top(Rest(last.before.stack)) \in 0..79
    /\ program_grid[Top(last.before.stack)][Top(Rest(last.before.stack))] = 255
    /\ Top(stack) = -1

\* ------------------------------------------------------------------------
\* The walk of the program counter over the grid
\* ------------------------------------------------------------------------
\* compile_basic_block_from moves current_pc, here program_counter, from the
\* program counter of the constructed machine over the cells it meets: a
\* space, a `#` and the four direction commands are the arms that move it
\* without compiling an op, and some grid puts any of them on any cell.
WalkEvent(what) ==
    /\ last' = Event(what)
    /\ UNCHANGED <<env_vars, basic_blocks, program_grid, grid_block_map, stack, input_pos,
                   output, rng_pos, basic_block_compiles, jit_locals, block_elements,
                   basic_block_elements, misses, interp_vars>>

\* b' ' => { current_pc.step(); current_pc.constrain(); }
CompileSpace ==
    /\ program_counter' = constrain(step(program_counter))
    /\ WalkEvent("space")

\* b'#' => { current_pc.step(); current_pc.step(); current_pc.constrain(); }
CompileBridge ==
    /\ program_counter' = constrain(step(step(program_counter)))
    /\ WalkEvent("bridge")

\* b'>' | b'<' | b'^' | b'v': the direction is set, then step and constrain
CompileRedirect ==
    \E command \in {Byte.gt, Byte.lt, Byte.caret, Byte.v} :
        /\ program_counter' =
               constrain(step([program_counter EXCEPT !.direction = Redirect(command)]))
        /\ WalkEvent("redirect")

WalkNext == CompileSpace \/ CompileBridge \/ CompileRedirect

\* from the machine constructed on the empty program text
WalkSpec == new_with_io(<<>>, <<>>, <<>>) /\ [][WalkNext]_vars

\* C19: Toroidal wrap.  step followed by constrain takes an in-grid position
\* to an in-grid position: x = 0 Left gives x = 79, x = 79 Right gives x = 0,
\* y = 0 Up gives y = 24, y = 24 Down gives y = 0, elsewhere one cell along
\* the direction; the other coordinate and the direction stay.  The double
\* step of `#` followed by one constrain lands in the grid too, two cells
\* further modulo the grid size.
C19_ToroidalWrap ==
    /\ [](/\ program_counter.position.x \in 0..79
          /\ program_counter.position.y \in 0..24)
    /\ [][LET p == program_counter.position
              q == program_counter'.position
              d == program_counter'.direction
          IN  /\ (last'.what = "space") =>
                    (/\ d = program_counter.direction
                     /\ (d = "Left") =>
                            (q.y = p.y /\ q.x = (IF p.x = 0 THEN 79 ELSE p.x - 1))
                     /\ (d = "Right") =>
                            (q.y = p.y /\ q.x = (IF p.x = 79 THEN 0 ELSE p.x + 1))
                     /\ (d = "Up") =>
                            (q.x = p.x /\ q.y = (IF p.y = 0 THEN 24 ELSE p.y - 1))
                     /\ (d = "Down") =>
                            (q.x = p.x /\ q.y = (IF p.y = 24 THEN 0 ELSE p.y + 1)))
              /\ (last'.what = "bridge") =>
                    (/\ d = program_counter.direction
                     /\ (d = "Left") => (q.y = p.y /\ q.x = (p.x + 78) % 80)
                     /\ (d = "Right") => (q.y = p.y /\ q.x = (p.x + 2) % 80)
                     /\ (d = "Up") => (q.x = p.x /\ q.y = (p.y + 23) % 25)
                     /\ (d = "Down") => (q.x = p.x /\ q.y = (p.y + 2) % 25))]_vars

\* A step to the left from the column 0 of the last row has been taken.
C19_Witness ==
    /\ last.what = "space"
    /\ program_counter = PC(Position(79, 24), "Left")

\* ------------------------------------------------------------------------
\* Construction from program texts of any size
\* ------------------------------------------------------------------------
\* How far the texts tried go beyond the size of the grid.
MaxOversize == 1

\* A line of `width` characters: `@`, then digits that tell the cells apart.
TextLine(i, width) == [j \in 1..width |-> IF j = 1 THEN Byte.at ELSE 48 + ((i + j) % 10)]

\* Texts of no, one, two, GRID_HEIGHT and more lines; the first line and the
\* later lines are empty, one character, GRID_WIDTH characters or more, and
\* end with a command or with a space.
GridTexts ==
    LET Heights == {0, 1, 2, GRID_HEIGHT} \cup (GRID_HEIGHT + 1)..(GRID_HEIGHT + MaxOversize)
        Widths == {0, 1, GRID_WIDTH} \cup (GRID_WIDTH + 1)..(GRID_WIDTH + MaxOversize)
    IN  { [i \in 1..height |->
              LET line == TextLine(i, IF i = 1 THEN first ELSE later)
              IN  IF spaced /\ Len(line) >= 2
                  THEN [line EXCEPT ![Len(line)] = Byte.space] ELSE line] :
            height \in Heights, first \in Widths, later \in Widths, spaced \in BOOLEAN }

ParseNext == EnsureMiss \/ ExecuteReturn \/ ResolveEndProgram \/ InterpStep

\* the machines constructed on the texts, run to their end
ParseSpec == (\E text \in GridTexts : new_with_io(text, <<>>, <<>>)) /\ [][ParseNext]_vars

\* C20: Grid parsing rejects oversize sources.  A text of more than 25 lines,
\* or with a line, the first or a later one, of more than 80 characters,
\* fails with InvalidGridSize and no grid is built; when a grid is built,
\* every character of every line is in it.
C20_OversizeRejected ==
    last.what = "new" =>
        LET height == Len(grid_text)
            oversize == height > 25 \/ \E i \in 1..height : Len(grid_text[i]) > 80
        IN  /\ oversize =>
                  (/\ program_grid = <<>>
                   /\ jit_at = "returned"
                   /\ returned.kind = "InvalidGridSize")
            /\ (program_grid # <<>>) =>
                  (\A i \in 1..height : \A j \in 1..Len(grid_text[i]) :
                      /\ i <= 25
                      /\ j <= 80
                      /\ program_grid[i - 1][j - 1] = grid_text[i][j])

\* C21, as stated: Parse round-trip.  For every ASCII text of at most 25
\* lines of at most 80 characters parse_grid succeeds, the grid is 25 rows
\* of 80 bytes, row i is line i padded with spaces on the right, the rows
\* without a line are all spaces, and the rows with their trailing spaces
\* stripped are the lines of the text.
C21_ParseRoundTrip ==
    (/\ last.what = "new"
     /\ Len(grid_text) <= 25
     /\ \A i \in 1..Len(grid_text) :
            Len(grid_text[i]) <= 80 /\ \A j \in 1..Len(grid_text[i]) : grid_text[i][j] <= 127) =>
        LET stripped(row) ==
                LET kept == {k \in 1..80 : row[k - 1] # 32}
                IN  [k \in 1..(IF kept = {} THEN 0 ELSE CHOOSE m \in kept : \A n \in kept : n <= m)
                        |-> row[k - 1]]
        IN  /\ jit_at = "ensure"
            /\ DOMAIN program_grid = 0..24
            /\ \A y \in 0..24 : DOMAIN program_grid[y] = 0..79
            /\ \A y \in 0..24 : \A x \in 0..79 :
                   program_grid[y][x] =
                       (IF y < Len(grid_text) /\ x < Len(grid_text[y + 1])
                        THEN grid_text[y + 1][x + 1] ELSE 32)
            /\ \A y \in 0..24 :
                   stripped(program_grid[y]) =
                       (IF y < Len(grid_text) THEN grid_text[y + 1] ELSE <<>>)

\* C21, amended: the same, where the rows with their trailing spaces
\* stripped are the lines of the text with their trailing spaces stripped.
C21_ParseRoundTripUpToTrailingSpaces ==
    (/\ last.what = "new"
     /\ Len(grid_text) <= 25
     /\ \A i \in 1..Len(grid_text) :
            Len(grid_text[i]) <= 80 /\ \A j \in 1..Len(grid_text[i]) : grid_text[i][j] <= 127) =>
        LET stripped(row) ==
                LET kept == {k \in 1..80 : row[k - 1] # 32}
                IN  [k \in 1..(IF kept = {} THEN 0 ELSE CHOOSE m \in kept : \A n \in kept : n <= m)
                        |-> row[k - 1]]
            trimmed(line) ==
                LET kept == {k \in 1..Len(line) : line[k] # 32}
                IN  [k \in 1..(IF kept = {} THEN 0 ELSE CHOOSE m \in kept : \A n \in kept : n <= m)
                        |-> line[k]]
        IN  /\ jit_at = "ensure"
            /\ DOMAIN program_grid = 0..24
            /\ \A y \in 0..24 : DOMAIN program_grid[y] = 0..79
            /\ \A y \in 0..24 : \A x \in 0..79 :
                   program_grid[y][x] =
                       (IF y < Len(grid_text) /\ x < Len(grid_text[y + 1])
                        THEN grid_text[y + 1][x + 1] ELSE 32)
            /\ \A y \in 0..24 :
                   stripped(program_grid[y]) =
                       (IF y < Len(grid_text) THEN trimmed(grid_text[y + 1]) ELSE <<>>)

\* A grid has been built from a text of two lines of 80 characters that end
\* with a space.
C21_Witness ==
    /\ last.what = "new"
    /\ program_grid # <<>>
    /\ Len(grid_text) = 2
    /\ Len(grid_text[1]) = 80 /\ grid_text[1][80] = 32
    /\ Len(grid_text[2]) = 80

\* C22: Cache coherence.  At the start of every iteration of the run loop,
\* every block of the forward cache has the ops and the terminator that
\* compiling its entry PC against the grid as it is now gives, whatever
\* stores, invalidations and recompilations went before.
C22_CacheCoherence ==
    jit_at = "ensure" =>
        \A entry_point \in DOMAIN basic_blocks :
            \E compiled \in {compile_basic_block_from(entry_point, program_grid)} :
                /\ compiled.kind = "Ok"
                /\ compiled.block.bytecode = basic_blocks[entry_point].bytecode
                /\ compiled.block.cf_decision = basic_blocks[entry_point].cf_decision

\* The run loop starts an iteration with blocks in the cache, after a store
\* has changed the grid and a block has been compiled since.
C22_Witness ==
    /\ jit_at = "ensure"
    /\ DOMAIN basic_blocks # {}
    /\ program_grid # parse_grid(grid_text).grid
    /\ misses >= 2

\* C23: A store interrupts the running block only when it invalidates that
\* block.  When a SetValue into the grid does not remove the entry PC
\* (position and direction) of the running block from the forward cache, the
\* block goes on with its next op; this is so too when the store removes a
\* block entered at the same position in another direction.
C23_StoreInterruptsOnlyInvalidated ==
    (/\ last.what = "SetValue"
     /\ last.in_grid
     /\ basic_block.entry_point \notin last.removed) =>
        (/\ basic_block.entry_point \in DOMAIN basic_blocks
         /\ jit_at = "execute"
         /\ op_index = last.before.op_index + 1)

\* The cells changed to try the frame of a compilation: the columns and the
\* rows from the origin up to these.
FrameColumn == 12
FrameRow == 3

\* C24: The visited-cell list.  The list the compiler returns holds every
\* cell whose byte the trace read: it starts with the entry cell, ends with
\* the cell of the terminator, holds the cells that emit no op and the cells
\* of string mode, each one wrapped step after the one before, or two after a
\* `#` outside string mode, whose jumped cell is not put in; and changing a
\* cell that is not in the list leaves the result of compiling from the same
\* entry PC as it is.
C24_VisitedCells ==
    last.what = "miss" =>
        LET pcs == basic_block_elements
            byte(i) == program_grid[pcs[i].y][pcs[i].x]
            string_mode(i) == Cardinality({k \in 1..(i - 1) : byte(k) = Byte.quote}) % 2 = 1
            apart(a, b) == ((b.x - a.x + 80) % 80) + ((b.y - a.y + 25) % 25)
            steps(a, b) == IF apart(a, b) <= apart(b, a) THEN apart(a, b) ELSE apart(b, a)
        IN  /\ Len(pcs) >= 1
            /\ pcs[1] = basic_block.entry_point.position
            /\ Len(pcs) > Len(basic_block.bytecode)
            /\ basic_block.cf_decision.kind = "EndProgram" => byte(Len(pcs)) = Byte.at
            /\ basic_block.cf_decision.kind = "Branch" =>
                   byte(Len(pcs)) \in {Byte.underscore, Byte.bar}
            /\ basic_block.cf_decision.kind = "Random" => byte(Len(pcs)) = Byte.question
            /\ \A i \in 1..(Len(pcs) - 1) :
                   steps(pcs[i], pcs[i + 1]) =
                       (IF byte(i) = Byte.hash /\ ~string_mode(i) THEN 2 ELSE 1)
            /\ \A x \in 0..FrameColumn, y \in 0..FrameRow :
                   Position(x, y) \notin Range(pcs) =>
                       \A command \in {Byte.at, Byte.X, Byte.quote} :
                           \E again \in {compile_basic_block_from(
                                              basic_block.entry_point,
                                              [program_grid EXCEPT ![y][x] = command])} :
                               /\ again.kind = "Ok"
                               /\ again.block = basic_block
                               /\ again.elements = pcs

\* A block has been compiled whose trace went over a `#` outside string
\* mode, through string mode and over a space.
C24_Witness ==
    /\ last.what = "miss"
    /\ \E i \in 1..(Len(basic_block_elements) - 1) :
          /\ program_grid[basic_block_elements[i].y][basic_block_elements[i].x] = Byte.hash
          /\ basic_block_elements[i + 1].x = basic_block_elements[i].x + 2
    /\ \E i \in 1..Len(basic_block_elements) :
          program_grid[basic_block_elements[i].y][basic_block_elements[i].x] = Byte.quote
    /\ \E i \in 1..Len(basic_block_elements) :
          program_grid[basic_block_elements[i].y][basic_block_elements[i].x] = Byte.space
    /\ Len(basic_block_elements) > Len(basic_block.bytecode) + 3

\* C25: String mode.  Between an opening and the closing `"` on the trace
\* every cell emits PushConstant of its byte read as a signed 8-bit value
\* (what GetValue returns for the cell: 0xFF gives -1), no byte raises
\* IllegalCommand, the direction does not change, and the closing `"` emits
\* no op and returns the trace to command mode.
C25_StringMode ==
    last.what = "miss" =>
        LET pcs == basic_block_elements
            byte(i) == program_grid[pcs[i].y][pcs[i].x]
            string_mode(i) == Cardinality({k \in 1..(i - 1) : byte(k) = Byte.quote}) % 2 = 1
            emits(i) == IF string_mode(i) THEN byte(i) # Byte.quote
                        ELSE byte(i) \in PlainCommands \cup {Byte.p}
            emitted(i) == Cardinality({k \in 1..i : emits(k)})
            along(i, j) == <<(pcs[j].x - pcs[i].x + 80) % 80, (pcs[j].y - pcs[i].y + 25) % 25>>
        IN  /\ emitted(Len(pcs)) = Len(basic_block.bytecode)
            /\ \A i \in 1..Len(pcs) : string_mode(i) =>
                   /\ (byte(i) # Byte.quote) =>
                          (/\ basic_block.bytecode[emitted(i)].op = "PushConstant"
                           /\ basic_block.bytecode[emitted(i)].num =
                                  (IF byte(i) <= 127 THEN byte(i) ELSE byte(i) - 256))
                   /\ (i < Len(pcs)) => (along(i, i + 1) = along(i - 1, i))
                   /\ (byte(i) = Byte.quote /\ i < Len(pcs)) => ~string_mode(i + 1)

\* C26: For every `p` on a trace the SetValue emitted carries pc_after equal
\* to the in-grid PC one wrapped step after the `p` cell in the direction the
\* trace has there, outside string mode, so that a block compiled from
\* pc_after is what is left of the block after the SetValue: the ops after
\* it, the terminator and the cells after the `p` cell.
C26_PcAfter ==
    last.what = "miss" =>
        LET pcs == basic_block_elements
            byte(i) == program_grid[pcs[i].y][pcs[i].x]
            string_mode(i) == Cardinality({k \in 1..(i - 1) : byte(k) = Byte.quote}) % 2 = 1
            emits(i) == IF string_mode(i) THEN byte(i) # Byte.quote
                        ELSE byte(i) \in PlainCommands \cup {Byte.p}
            emitted(i) == Cardinality({k \in 1..i : emits(k)})
            along(i, j) == <<(pcs[j].x - pcs[i].x + 80) % 80, (pcs[j].y - pcs[i].y + 25) % 25>>
            unit(direction) == CASE direction = "Up" -> <<0, 24>>
                                 [] direction = "Down" -> <<0, 1>>
                                 [] direction = "Left" -> <<79, 0>>
                                 [] direction = "Right" -> <<1, 0>>
        IN  \A i \in 1..Len(pcs) : (~string_mode(i) /\ byte(i) = Byte.p) =>
               (\E op \in {basic_block.bytecode[emitted(i)]} :
                   /\ i < Len(pcs)
                   /\ op.op = "SetValue"
                   /\ op.pc_after.position = pcs[i + 1]
                   /\ op.pc_after.position.x \in 0..79
                   /\ op.pc_after.position.y \in 0..24
                   /\ along(i, i + 1) = unit(op.pc_after.direction)
                   /\ (i = 1) => (op.pc_after.direction = basic_block.entry_point.direction)
                   /\ (i > 1 /\ (string_mode(i - 1) \/ byte(i - 1) # Byte.hash)) =>
                          (along(i - 1, i) = unit(op.pc_after.direction))
                   /\ ~string_mode(i + 1)
                   /\ \E rest \in {compile_basic_block_from(op.pc_after, program_grid)} :
                          /\ rest.kind = "Ok"
                          /\ rest.block.bytecode =
                                 SubSeq(basic_block.bytecode, emitted(i) + 1,
                                        Len(basic_block.bytecode))
                          /\ rest.block.cf_decision = basic_block.cf_decision
                          /\ rest.elements = SubSeq(pcs, i + 1, Len(pcs)))

\* A block has been compiled with a `p` in the column 0 that the trace leaves
\* to the left, with an op after it.
C26_Witness ==
    /\ last.what = "miss"
    /\ \E k \in 1..(Len(basic_block.bytecode) - 1) :
          /\ basic_block.bytecode[k].op = "SetValue"
          /\ basic_block.bytecode[k].pc_after = PC(Position(79, 1), "Left")

\* C27: In-grid store then load.  SetValue pops y first, x second and the
\* value v third; when (x, y) is in the grid the cell holds v mod 256
\* afterwards and every other cell is as before; a GetValue reads a cell as
\* ((b + 128) mod 256) - 128 of its byte b, so a GetValue of the cell that
\* follows the store pushes ((v + 128) mod 256) - 128.
C27_StoreThenLoad ==
    /\ [][(last'.what = "SetValue" /\ last'.in_grid /\ last' # last) =>
            (LET s == Pad(stack, 3)
                 y == s[Len(s)]
                 x == s[Len(s) - 1]
                 v == s[Len(s) - 2]
             IN  /\ last'.cell = Position(x, y)
                 /\ stack' = Below(s, 3)
                 /\ program_grid' = [program_grid EXCEPT ![y][x] = v % 256])]_vars
    /\ [](last.what = "GetValue" =>
            (LET s == Pad(last.before.stack, 2)
                 y == s[Len(s)]
                 x == s[Len(s) - 1]
             IN  (x \in 0..79 /\ y \in 0..24) =>
                     (stack = Below(s, 2) \o <<((program_grid[y][x] + 128) % 256) - 128>>)))
    /\ []((last.what = "GetValue" /\ grid_text = StoreThenLoad.source) =>
            (LET v == last.before.stack[1]
             IN  /\ program_grid[5][5] = v % 256
                 /\ stack = <<v, ((v + 128) % 256) - 128>>))

\* The value 400 has been stored and the cell loaded: the byte is 144, the
\* value loaded -112.
C27_Witness ==
    /\ last.what = "GetValue"
    /\ grid_text = StoreThenLoad.source
    /\ program_grid[5][5] = 144
    /\ stack = <<400, -112>>

\* C28: Random resolution.  A block that ends at a `?` cell has the four
\* choices one step Up, Down, Left and Right of the cell, each facing the way
\* stepped; after the block has run to completion the program counter is the
\* one of the four that the random source draws, and the stack is as the
\* block left it.
C28_RandomResolution ==
    last.what = "Random" =>
        LET cell == basic_block_elements[Len(basic_block_elements)]
            choices == <<PC(Position(cell.x, cell.y - 1), "Up"),
                         PC(Position(cell.x, cell.y + 1), "Down"),
                         PC(Position(cell.x - 1, cell.y), "Left"),
                         PC(Position(cell.x + 1, cell.y), "Right")>>
        IN  /\ program_grid[cell.y][cell.x] = Byte.question
            /\ basic_block.cf_decision.kind = "Random"
            /\ basic_block.cf_decision.targets = choices
            /\ ~last.synthetic
            /\ op_index > Len(basic_block.bytecode)
            /\ program_counter \in Range(choices)
            /\ program_counter.direction = rand[rng_pos]
            /\ stack = last.before.stack
            /\ jit_at = "ensure"

\* A `?` has been resolved to the left with a value on the stack.
C28_Witness ==
    /\ last.what = "Random"
    /\ program_counter.direction = "Left"
    /\ stack # <<>>

\* ------------------------------------------------------------------------
\* A loop without a terminator
\* ------------------------------------------------------------------------
\* the row 0 filled with pairs of a digit and `$`: 1$2$3$ ... 9$0$
Ring ==
    [ source |-> <<[j \in 1..GRID_WIDTH |->
                      IF j % 2 = 1 THEN Byte.zero + (((j + 1) \div 2) % 10) ELSE Byte.dollar]>>,
      bytes |-> {}, reads |-> FALSE, random |-> FALSE ]

\* The number of blocks of the ring that are compiled and run.
MaxRingBlocks == 3

\* ensure_basic_block on a cache miss, for the first blocks of the ring
RingMiss == basic_block_compiles < MaxRingBlocks /\ EnsureMiss

RingNext == RingMiss \/ ExecPushConstant \/ ExecDrop \/ ExecuteReturn \/ ResolveJump

\* the machine constructed on the ring, run until MaxRingBlocks blocks are run
RingSpec == new_with_io(Ring.source, <<>>, <<>>) /\ [][RingNext]_vars

\* C29: Size cap on a loop without a terminator that emits ops.  Once more
\* than 2048 ops are emitted the block ends with Jump(pc), pc the in-grid PC
\* of the first cell whose command is not translated: the ops of the block
\* are the commands of the cells of the trace before that cell, one for one
\* in order, and the run goes on at pc, so that the next block starts with
\* the command of that cell.
C29_SizeCap ==
    /\ [](last.what = "miss" =>
            \E pcs \in {basic_block_elements} :
            \E commands \in {[i \in 1..(Len(pcs) - 1) |-> program_grid[pcs[i].y][pcs[i].x]]} :
                /\ Len(basic_block.bytecode) = 2049
                /\ Len(commands) = 2049
                /\ \A k \in 1..2049 : basic_block.bytecode[k] = PlainOp(commands[k])
                /\ \A i \in 1..(Len(pcs) - 1) :
                       /\ pcs[i].y = pcs[i + 1].y
                       /\ pcs[i + 1].x = (pcs[i].x + 1) % 80
                /\ basic_block.cf_decision.kind = "Jump"
                /\ basic_block.cf_decision.targets = <<PC(pcs[Len(pcs)], "Right")>>
                /\ pcs[Len(pcs)].x \in 0..79 /\ pcs[Len(pcs)].y \in 0..24
                /\ pcs[1] = program_counter.position)
    /\ [](last.what = "Jump" =>
            (/\ ~last.synthetic
             /\ jit_at = "ensure"
             /\ program_counter = PC(basic_block_elements[Len(basic_block_elements)], "Right")))

\* The first block of the ring has been compiled: 2049 ops in 25 rounds and
\* 49 cells, and a Jump to the cell (49,0).
C29_Witness ==
    /\ last.what = "miss"
    /\ misses = 1
    /\ Len(basic_block.bytecode) > 2048
    /\ Len(basic_block_elements) = 25 * 80 + 50
    /\ basic_block.cf_decision.targets = <<PC(Position(49, 0), "Right")>>

\* C30: Loop and merge termination during compilation.  When the trace of a
\* block reaches the entry PC of a block compiled before, or a PC it has
\* passed itself (its own entry PC too), the block ends there with an
\* unconditional Jump to that PC.
C30_LoopAndMergeTermination ==
    last.what = "miss" =>
        LET pcs == basic_block_elements
            along(i, j) == <<(pcs[j].x - pcs[i].x + 80) % 80, (pcs[j].y - pcs[i].y + 25) % 25>>
            direction(i) ==
                IF i = 1 THEN basic_block.entry_point.direction
                ELSE CHOOSE d \in Direction :
                        \/ d = "Up" /\ along(i - 1, i) \in {<<0, 24>>, <<0, 23>>}
                        \/ d = "Down" /\ along(i - 1, i) \in {<<0, 1>>, <<0, 2>>}
                        \/ d = "Left" /\ along(i - 1, i) \in {<<79, 0>>, <<78, 0>>}
                        \/ d = "Right" /\ along(i - 1, i) \in {<<1, 0>>, <<2, 0>>}
            passed(i) == PC(pcs[i], direction(i))
            compiled_before == (DOMAIN basic_blocks) \ {basic_block.entry_point}
        IN  \A j \in 2..Len(pcs) :
               (\/ passed(j) \in compiled_before
                \/ \E i \in 1..(j - 1) : passed(i) = passed(j)) =>
                   (/\ j = Len(pcs)
                    /\ basic_block.cf_decision = Jump(passed(j)))


\* ------------------------------------------------------------------------
\* Operand order
\* ------------------------------------------------------------------------
\* The commands that replace the top of the stack by a function of it
OperandCommands == BinaryCommands \cup {Byte.bang}

\* The program `7&&c.@` for a command c, run on the input "a b ": the 7
\* lies below the operands.
OperandInit ==
    \E c \in OperandCommands, a \in Words, b \in Words :
        new_with_io(<<<<Byte.zero + 7, Byte.amp, Byte.amp, c, Byte.dot, Byte.at>>>>,
                    FormatDecimal(a) \o FormatDecimal(b), <<>>)

OperandNext ==
    \/ EnsureMiss \/ ExecPushConstant \/ ExecInputDecimal \/ ExecBinary \/ ExecNegate
    \/ ExecOutputDecimal \/ ExecuteReturn \/ ResolveEndProgram \/ InterpStep

OperandSpec == OperandInit /\ [][OperandNext]_vars

\* C31: Operand order.  Binary pops b, the top, first and a, the second,
\* next and pushes op(a, b): Subtract pushes a - b, Divide a / b, Remainder
\* a % b (for the divisors b that have a quotient) and Greater 1 if a > b
\* else 0; Negate pushes 1 if the popped value is 0 and 0 otherwise; each
\* leaves the stack below its operands as it was.
C31_OperandOrder ==
    /\ (last.what = "Binary" /\ jit_at = "execute") =>
          (LET b == Top(last.before.stack)
               a == Top(Rest(last.before.stack))
               below == Rest(Rest(last.before.stack))
               binary == basic_block.bytecode[last.before.op_index].mode
               pushed ==
                   CASE binary = "Add" -> WrapInt(a + b)
                     [] binary = "Subtract" -> WrapInt(a - b)
                     [] binary = "Multiply" -> WrapInt(a * b)
                     [] binary = "Divide" ->
                           WrapInt((IF (a >= 0) = (b >= 0) THEN 1 ELSE -1) * (Abs(a) \div Abs(b)))
                     [] binary = "Remainder" ->
                           WrapInt((IF a >= 0 THEN 1 ELSE -1) * (Abs(a) % Abs(b)))
                     [] binary = "Greater" -> (IF a > b THEN 1 ELSE 0)
           IN  stack = Append(below, pushed))
    /\ last.what = "Negate" =>
          (/\ jit_at = "execute"
           /\ stack = Append(Rest(last.before.stack),
                             IF Top(last.before.stack) = 0 THEN 1 ELSE 0))

\* Divide has run on a = -2 and b = 1 above a 7 and has pushed -2, where
\* b / a is 0; the 7 is still below.
C31_Witness ==
    /\ jit_at = "execute"
    /\ last.before.stack = <<7, -2, 1>>
    /\ last.what = "Binary"
    /\ basic_block.bytecode[last.before.op_index].mode = "Divide"
    /\ stack = <<7, -2>>


\* ------------------------------------------------------------------------
\* Decimal input that ends with the stream
\* ------------------------------------------------------------------------
\* The whitespace tried before a numeral
Blanks ==
    { <<>>, <<Byte.space>>, <<Byte.lf>>, <<Byte.tab, Byte.space>>, <<Byte.cr, Byte.lf>> }

\* The text of a number without the separator write! puts after it, with an
\* explicit `+` where asked for
Numeral(n, plus) ==
    (IF plus /\ n >= 0 THEN <<Byte.plus>> ELSE <<>>)
        \o SubSeq(FormatDecimal(n), 1, Len(FormatDecimal(n)) - 1)

\* The program `&.@`, run on whitespace, a numeral and then either the end of
\* the stream or a space.
TokenInit ==
    \E blank \in Blanks, n \in Words, plus \in BOOLEAN, separated \in BOOLEAN :
        new_with_io(ReadDecimal.source,
                    blank \o Numeral(n, plus) \o (IF separated THEN <<Byte.space>> ELSE <<>>),
                    <<>>)

TokenNext ==
    \/ EnsureMiss \/ ExecInputDecimal \/ ExecOutputDecimal
    \/ ExecuteReturn \/ ResolveEndProgram \/ InterpStep

TokenSpec == TokenInit /\ [][TokenNext]_vars

\* C32: End-of-stream in the middle of a decimal token ends the token.  When
\* the input not yet read is whitespace, then a sign or none and one or more
\* decimal digits that write an Int, and then the end of the stream,
\* Input(Decimal) pushes that number, has read the whole stream and does not
\* fail.
C32_EofEndsToken ==
    (/\ last.what = "Input"
     /\ basic_block.bytecode[last.before.op_index].mode = "Decimal") =>
        LET unread == SubSeq(input, last.before.input_pos + 1, Len(input))
            blank == {i \in 1..Len(unread) : \A k \in 1..i : unread[k] \in {9, 10, 11, 12, 13, 32}}
            token == SubSeq(unread, Cardinality(blank) + 1, Len(unread))
            signed == Len(token) > 0 /\ token[1] \in {Byte.plus, Byte.minus}
            digits == IF signed THEN SubSeq(token, 2, Len(token)) ELSE token
            number == IF signed /\ token[1] = Byte.minus
                      THEN -DigitsValue(digits) ELSE DigitsValue(digits)
        IN  (/\ Len(digits) > 0
             /\ \A i \in 1..Len(digits) : digits[i] \in Byte.zero .. Byte.nine
             /\ number \in IntMin..IntMax) =>
                (/\ jit_at = "execute"
                 /\ stack = Append(last.before.stack, number)
                 /\ input_pos = Len(input))

\* Input(Decimal) has read a line feed and `-2` up to the end of the stream
\* and has pushed -2.
C32_Witness ==
    /\ last.what = "Input"
    /\ last.before.input_pos = 0
    /\ input = <<Byte.lf, Byte.minus, Byte.zero + 2>>
    /\ jit_at = "execute"
    /\ stack = <<-2>>
    /\ input_pos = 3


\* C33: The reverse index holds sets.  In every reachable state no cell's
\* list names the same entry PC more than once, also when a trace visits a
\* cell several times and when a block is compiled again after it was
\* invalidated through another cell.
C33_ReverseIndexSets ==
    \A y \in 0..(GRID_HEIGHT - 1), x \in 0..(GRID_WIDTH - 1) :
        \A i, j \in 1..Len(grid_block_map[y][x]) :
            grid_block_map[y][x][i] = grid_block_map[y][x][j] => i = j

====
